---- MODULE Spec2Model ----
(***************************************************************************)
(* Lead routing service (src/src/services/routing.service.js).             *)
(*                                                                         *)
(* The source file holds two copies of RoutingService.  The variable impl  *)
(* says which copy is deployed: 1 is the copy of lines 1-919 (the one the  *)
(* routes of src/src/routes require), 2 is the copy of lines 921-1593.     *)
(*                                                                         *)
(* The store is the four tables of src/src/database/connection.js:         *)
(* locations (static here), leads, lead_routing_logs and location_capacity *)
(* for the current day.  Queries made without the transaction handle       *)
(* commit at once; the rows written through a transaction handle become    *)
(* visible at commit.                                                      *)
(*                                                                         *)
(* Numbers: distances are in hundredths of a mile (calculateDistance       *)
(* rounds to two decimals), utilization rates in 1/RateScale, suitability  *)
(* scores in 1/RateScale of a point.                                       *)
(***************************************************************************)
EXTENDS Integers, Sequences, FiniteSets, TLC

\* ------------------------------------------------------------------ bounds
NumLocs == 2
NumReqs == 2
\* store and collaborator failures met in one run, at most
MaxFaults == 1
\* lead requests in one POST /assign_leads, at most
MaxBatch == 3
\* location rows the store returns to one candidate search, at most
MaxRows == 4
\* 401 answers the CRM server gives in one run, at most
MaxUnauthorized == 2

Locs == 1..NumLocs
Procs == 1..NumReqs

\* ------------------------------------------------------- program constants
maxDistance == 50
DefaultMaxCapacity == 100
DefaultLeadScore == 50
HighValueScore == 80
NearestKept == 3
SqlLimit == 5
RateScale == 10000
DistScale == 100

\* 0.9, 0.8 and 0.6 in units of 1/RateScale
HighThreshold == (9 * RateScale) \div 10
LowThreshold == (8 * RateScale) \div 10
PremiumUtilization == (6 * RateScale) \div 10
\* the 0.8 the facebook performance score is compared with, same unit
FacebookThreshold == (8 * RateScale) \div 10

\* ----------------------------------------------------- inputs of the model
\* miles from the lead to a location, by the place of its coordinates; the
\* coordinates of an "invalid" location are out of range (the Location schema
\* takes any number) and compute to a distance beyond the radius
Places == {"near", "far", "invalid"}
MilesOf == [near |-> 2, far |-> 60, invalid |-> 60]
LeadScores == {50, 85}
\* the capacity row seeded for today: 8 leads of a max_capacity of 10, at the
\* lower threshold and one lead under the higher one
SeedRows == {[current_leads |-> 8, max_capacity |-> 10]}

VARIABLES
  impl,      \* which copy of RoutingService runs
  active,    \* locations.active
  place,     \* where the location's coordinates put it, seen from the lead
  hq,        \* the location whose name matches overflow/headquarters, 0: none
  ledger,    \* location_capacity rows of today, by location
  leads,     \* leads table, in insertion order; the id is the index
  logs,      \* lead_routing_logs table, in insertion order
  alerts,    \* alerts handed to the notification service for the delivered results
  crm,       \* instructions handed to the CRM client for the delivered results
  pc,        \* position of each request
  loc,       \* locals of each request
  result,    \* what a request returned or raised, until the next one enters
  concurrency, \* how many requests the workload keeps in flight at once
  faultsOn,  \* whether the store and the collaborators may fail in this run
  seeded,    \* the ledger as it was before the first request (history)
  faultsUsed, \* failures met so far (history)
  batchLeads, \* req.body.leads of the POST /assign_leads being served
  index,      \* how many of its items the loop has gone through
  results,    \* the route's results list
  errors,     \* the route's errors list
  response,   \* what the route answered
  body,       \* req.body of the POST /assign_lead being served
  called,     \* the indexes of the items assignLead was called for (history)
  job,        \* the geoUtils call being made: "geocode", "distance" or "none"
  zipCode,    \* the postal code handed to getCoordinatesFromZip
  apiKey,     \* whether GOOGLE_MAPS_API_KEY is set
  geocode,    \* what the provider does when called
  coordinates, \* what getCoordinatesFromZip returned
  pointA,     \* the two points handed to calculateDistance
  pointB,
  miles,      \* the distances calculateDistance returned
  candJob,    \* the candidate-search call being made: "find", "score" or "none"
  candRows,   \* the location rows the store returned, joined with capacity
  candLead,   \* leadScore and source of the request
  candList,   \* what findAvailableLocations returned
  candScores, \* what calculateSuitabilityScore returned for each row
  candRequest, \* the lead request sent to POST /assign_lead and, as a batch of one, to POST /assign_leads
  candRouted, \* how assignLead routed it from each of the two routes
  candContacts, \* the contact fields of two assignLead requests that are otherwise the same
  candEnds, \* where the two requests ended
  accessTokens, \* GHLApiClient.accessTokens: whether a valid token is cached, by location
  tokenRefreshPromises, \* GHLApiClient.tokenRefreshPromises: the caller whose refresh is the entry, 0: none
  refreshing, \* the location each caller's own refreshAccessToken is in flight for, 0: none
  caller,     \* position and locals of each makeRequest call
  outcome,    \* how the last refresh each caller started has settled (history)
  unauthorized \* 401 answers given so far (history)

vars == <<impl, active, place, hq, ledger, leads, logs, alerts, crm, pc, loc, result,
          concurrency, faultsOn, seeded, faultsUsed,
          batchLeads, index, results, errors, response, body, called,
          job, zipCode, apiKey, geocode, coordinates, pointA, pointB, miles,
          candJob, candRows, candLead, candList, candScores, candRequest, candRouted,
          candContacts, candEnds,
          accessTokens, tokenRefreshPromises, refreshing, caller, outcome, unauthorized>>

\* the CRM client (src/utils/ghlApiClient.js)
ghlVars == <<accessTokens, tokenRefreshPromises, refreshing, caller, outcome, unauthorized>>

\* the calls of the candidate search on rows given from outside
candVars == <<candJob, candRows, candLead, candList, candScores, candRequest, candRouted,
             candContacts, candEnds>>

\* the calls into geoUtils
geoVars == <<job, zipCode, apiKey, geocode, coordinates, pointA, pointB, miles>>

\* the routes' requests, locals and answers
batchVars == <<batchLeads, index, results, errors, response, body, called>>

\* what no request changes: the deployment, the locations, the workload
config == <<impl, active, place, hq, concurrency, faultsOn, seeded>>

\* rows: how many location_capacity rows the table holds for the location today
NoEntry == [exists |-> FALSE, current_leads |-> 0, max_capacity |-> 0, utilization_rate |-> 0,
            rows |-> 0]

NoResult == [state |-> "NONE", success |-> FALSE, locationId |-> 0, reason |-> "",
             requiresReview |-> FALSE, requiresManualReview |-> FALSE,
             originalError |-> "", fallbackError |-> "", leadId |-> 0]

NoLocals == [kind |-> "none", zipOk |-> FALSE, leadScore |-> 0, source |-> "",
             selected |-> 0, selDistance |-> 0, selScore |-> 0, selUtil |-> 0,
             degraded |-> FALSE, originalError |-> "",
             capLoc |-> 0, capDelta |-> 0, capSeen |-> NoEntry, capRet |-> "",
             leadId |-> 0, newLoc |-> 0, oldLoc |-> 0, before |-> <<>>]

Min(a, b) == IF a < b THEN a ELSE b
Max(a, b) == IF a > b THEN a ELSE b

\* rows come back from the store in insertion (id) order
StoreOrder == [i \in 1..NumLocs |-> i]

\* ------------------------------------------------------------- pure helpers

\* calculateDistance, abstracted to the distance class of the location
calculateDistance(l) == MilesOf[place[l]] * DistScale

\* newLeadCount / (max_capacity || 100)
Rate(count, maxCap) ==
  (count * RateScale) \div (IF maxCap = 0 THEN DefaultMaxCapacity ELSE maxCap)

\* the score without its floor
calculateSuitabilityScore_unfloored(c, leadScore, source) ==
  LET base == 100 * RateScale - 2 * (c.distance * (RateScale \div DistScale))
                - 30 * c.utilization_rate
      premium == IF leadScore >= HighValueScore /\ c.utilization_rate < PremiumUtilization
                 THEN 20 * RateScale ELSE 0
      fb == IF source = "facebook" /\ c.facebook_performance_score > FacebookThreshold
            THEN 10 * RateScale ELSE 0
  IN base + premium + fb

calculateSuitabilityScore(c, leadScore, source) ==
  LET base == 100 * RateScale - 2 * (c.distance * (RateScale \div DistScale))
                - 30 * c.utilization_rate
      premium == IF leadScore >= HighValueScore /\ c.utilization_rate < PremiumUtilization
                 THEN 20 * RateScale ELSE 0
      fb == IF source = "facebook" /\ c.facebook_performance_score > FacebookThreshold
            THEN 10 * RateScale ELSE 0
  IN Max(0, base + premium + fb)

maxUtilizationThreshold(leadScore) ==
  IF leadScore >= HighValueScore THEN HighThreshold ELSE LowThreshold

RECURSIVE SortByScore(_)
\* Array.prototype.sort with (a, b) => b.suitabilityScore - a.suitabilityScore:
\* descending, stable
SortByScore(s) ==
  IF Len(s) <= 1 THEN s
  ELSE LET best == CHOOSE i \in 1..Len(s) :
                     /\ \A j \in 1..Len(s) : s[j].suitabilityScore <= s[i].suitabilityScore
                     /\ \A j \in 1..(i-1) : s[j].suitabilityScore < s[i].suitabilityScore
           rest == [k \in 1..(Len(s)-1) |-> IF k < best THEN s[k] ELSE s[k+1]]
       IN <<s[best]>> \o SortByScore(rest)

RECURSIVE SortByDistance(_)
\* ORDER BY distance ASC of the second copy's query (ties in store order)
SortByDistance(s) ==
  IF Len(s) <= 1 THEN s
  ELSE LET best == CHOOSE i \in 1..Len(s) :
                     /\ \A j \in 1..Len(s) : s[j].distance >= s[i].distance
                     /\ \A j \in 1..(i-1) : s[j].distance > s[i].distance
           rest == [k \in 1..(Len(s)-1) |-> IF k < best THEN s[k] ELSE s[k+1]]
       IN <<s[best]>> \o SortByDistance(rest)

\* a location row joined with its capacity row of today (or the defaults)
WithCapacity(l, defaultMax) ==
  LET cap == ledger[l]
  IN [id |-> l,
      distance |-> calculateDistance(l),
      current_leads |-> IF cap.exists THEN cap.current_leads ELSE 0,
      max_capacity |-> IF cap.exists /\ cap.max_capacity # 0 THEN cap.max_capacity ELSE defaultMax,
      utilization_rate |-> IF cap.exists THEN cap.utilization_rate ELSE 0,
      facebook_performance_score |-> 0,
      suitabilityScore |-> 0]

Scored(s, leadScore, source) ==
  [i \in 1..Len(s) |->
     [s[i] EXCEPT !.suitabilityScore = calculateSuitabilityScore(s[i], leadScore, source)]]

IsActive(l) == active[l]
WithinRadius(c) == c.distance <= maxDistance * DistScale

\* first copy, from the rows joined with capacity on: throws when none is
\* within the radius, degrades to the first three radius-filtered rows when
\* none has capacity
rankLocations1(locationsWithDistance, leadScore, source) ==
  LET nearbyLocations == SelectSeq(locationsWithDistance, WithinRadius)
      HasCapacity(c) == c.utilization_rate < maxUtilizationThreshold(leadScore)
      availableLocations == SelectSeq(nearbyLocations, HasCapacity)
      degraded == Len(availableLocations) = 0
      locationsToReturn == IF ~degraded THEN availableLocations
                           ELSE SubSeq(nearbyLocations, 1, Min(NearestKept, Len(nearbyLocations)))
  IN IF Len(nearbyLocations) = 0
       THEN [error |-> "none_within_radius", list |-> <<>>, degraded |-> FALSE]
     ELSE [error |-> "", list |-> SortByScore(Scored(locationsToReturn, leadScore, source)),
           degraded |-> degraded]

\* first copy: throws when no location is active
findAvailableLocations1(leadScore, source) ==
  LET locations == SelectSeq(StoreOrder, IsActive)
      locationsWithDistance == [i \in 1..Len(locations) |-> WithCapacity(locations[i], DefaultMaxCapacity)]
  IN IF Len(locations) = 0
       THEN [error |-> "no_active_locations", list |-> <<>>, degraded |-> FALSE]
     ELSE rankLocations1(locationsWithDistance, leadScore, source)

\* second copy, from the joined rows on: within the radius, nearest first,
\* LIMIT 5, then the capacity filter; an empty list is returned as such
rankLocations2(joined, leadScore, source) ==
  LET inRadius == SortByDistance(SelectSeq(joined, WithinRadius))
      locations == SubSeq(inRadius, 1, Min(SqlLimit, Len(inRadius)))
      HasCapacity(c) == c.utilization_rate < maxUtilizationThreshold(leadScore)
      availableLocations == SelectSeq(locations, HasCapacity)
  IN [error |-> "", list |-> SortByScore(Scored(availableLocations, leadScore, source)),
      degraded |-> FALSE]

\* second copy: one SQL query over the active locations
findAvailableLocations2(leadScore, source) ==
  LET activeRows == SelectSeq(StoreOrder, IsActive)
      joined == [i \in 1..Len(activeRows) |-> WithCapacity(activeRows[i], 0)]
  IN rankLocations2(joined, leadScore, source)

findAvailableLocations(leadScore, source) ==
  IF impl = 1 THEN findAvailableLocations1(leadScore, source)
  ELSE findAvailableLocations2(leadScore, source)

\* the oldest-first order of the default location reversed
defaultLocation_newest ==
  IF \E l \in Locs : active[l]
  THEN CHOOSE l \in Locs : active[l] /\ \A m \in Locs : active[m] => l >= m
  ELSE 0

\* Location.query().where('active', true).orderBy('created_at', 'asc').first()
\* (locations are created in id order); 0 when there is none
defaultLocation ==
  IF \E l \in Locs : active[l]
  THEN CHOOSE l \in Locs : active[l] /\ \A m \in Locs : active[m] => l <= m
  ELSE 0

\* Location.query().where('name','LIKE','%overflow%').orWhere(..headquarters..).first()
overflowLocation == hq

\* the rows executeAssignment inserts
leadRow(p, l) ==
  [assigned_location_id |-> l, backup_location_id |-> 0,
   lead_score |-> loc[p].leadScore, ghl_contact_id |-> p, status |-> "assigned"]

routingLogRow(p, leadId, l, reason) ==
  [lead_id |-> leadId, original_location_id |-> 0, assigned_location_id |-> l,
   routing_reason |-> reason,
   routing_data |-> IF l = loc[p].selected /\ reason = "optimal_match"
                    THEN [distance |-> loc[p].selDistance,
                          suitabilityScore |-> loc[p].selScore,
                          capacityUtilization |-> loc[p].selUtil]
                    ELSE [distance |-> 0, suitabilityScore |-> 0, capacityUtilization |-> 0],
   viaDegrade |-> (reason = "optimal_match" /\ loc[p].degraded),
   by |-> p]

\* the route has not answered
NoResponse == [status |-> 0, success |-> FALSE, total |-> 0, successful |-> 0, failed |-> 0,
               assignments |-> <<>>, errors |-> <<>>, error |-> ""]

\* no POST /assign_lead is being served
NoBody == [isNull |-> TRUE, zip_code |-> FALSE, source |-> FALSE, ghl_contact_id |-> FALSE]

\* ---------------------------------------------------- src/utils/geoUtils.js
\* A postal code is the sequence of its characters.  Coordinates of the
\* geocoder are in 1/CoordScale of a degree.  Angles are in 1/AngleScale of
\* a radian, sines and cosines in 1/TrigScale.
CoordScale == 10000
AngleScale == 10000
TrigScale == 10000
PiRad == 31416
EarthRadius == 3959

DigitChars == <<"0", "1", "2", "3", "4", "5", "6", "7", "8", "9">>
Digit == {DigitChars[i] : i \in 1..Len(DigitChars)}
parseInt(c) == (CHOOSE i \in 1..Len(DigitChars) : DigitChars[i] = c) - 1

\* the postal codes asked for: none, the keys of the static table with and
\* without decoration, codes of five digits outside the table, and codes
\* that are not five digits
ZipInputs ==
  { <<>>,
    <<"1", "0", "0", "0", "1">>,
    <<"9", "0", "2", "1", "0">>,
    <<" ", "1", "0", "0", "0", "1">>,
    <<"1", "0", "0", "0", "1", "-", "1", "2", "3", "4">>,
    <<"0", "0", "0", "0", "0">>,
    <<"1", "2", "3", "4", "5">>,
    <<"9", "9", "9", "9", "9">>,
    <<"3", "0", "3", "0", "3", "-", "0", "0", "0", "1">>,
    <<"1", "2", "3", "4">>,
    <<"1", "2", "3", "4", "5", "6">>,
    <<"a", "b", "c", "d", "e">> }

\* what geocoder.geocode does when it is called: a result with coordinates,
\* no result, or an error
GeocodeAnswers == {"found", "none", "throws"}

NotFound == [found |-> FALSE, latitude |-> 0, longitude |-> 0, method |-> "none"]
Found(lat, lon, method) == [found |-> TRUE, latitude |-> lat, longitude |-> lon, method |-> method]

\* the coordinates the provider gives for a code it knows
ProviderResult == Found(407128, -740060, "google_api")

ZIP_CODE_FALLBACKS ==
  { [zip |-> <<"1", "0", "0", "0", "1">>, latitude |-> 407505, longitude |-> -739934],
    [zip |-> <<"9", "0", "2", "1", "0">>, latitude |-> 340901, longitude |-> -1184065],
    [zip |-> <<"6", "0", "6", "0", "1">>, latitude |-> 418827, longitude |-> -876233],
    [zip |-> <<"7", "7", "0", "0", "1">>, latitude |-> 297749, longitude |-> -953656],
    [zip |-> <<"8", "5", "0", "0", "1">>, latitude |-> 334484, longitude |-> -1120740] }

InFallbacks(zip) == \E e \in ZIP_CODE_FALLBACKS : e.zip = zip
fallbackCoordinates(zip) ==
  LET e == CHOOSE e \in ZIP_CODE_FALLBACKS : e.zip = zip
  IN Found(e.latitude, e.longitude, "fallback_database")

\* zipCode.toString().replace(/[^\d-]/g, '').substring(0, 10)
IsZipChar(c) == c \in Digit \cup {"-"}
cleanZip(zip) ==
  LET kept == SelectSeq(zip, IsZipChar)
  IN SubSeq(kept, 1, Min(Len(kept), 10))

\* cleanZip.split('-')[0]
baseZip(zip) ==
  LET clean == cleanZip(zip)
      hyphens == {i \in 1..Len(clean) : clean[i] = "-"}
  IN IF hyphens = {} THEN clean
     ELSE SubSeq(clean, 1, (CHOOSE i \in hyphens : \A j \in hyphens : i <= j) - 1)

\* /^\d{5}(-\d{4})?$/
isValidUSZipCode(zip) ==
  \/ Len(zip) = 5 /\ \A i \in 1..5 : zip[i] \in Digit
  \/ /\ Len(zip) = 10
     /\ zip[6] = "-"
     /\ \A i \in (1..5) \cup (7..10) : zip[i] \in Digit

\* the regional table by first digit, in tenths of a degree
regionalEstimates ==
  << [lat |-> 420, lon |-> -710], [lat |-> 407, lon |-> -740], [lat |-> 389, lon |-> -770],
     [lat |-> 337, lon |-> -844], [lat |-> 362, lon |-> -868], [lat |-> 419, lon |-> -876],
     [lat |-> 328, lon |-> -968], [lat |-> 391, lon |-> -946], [lat |-> 397, lon |-> -1049],
     [lat |-> 374, lon |-> -1221] >>

\* estimateCoordinatesFromZip: every first digit has a region
estimateCoordinatesFromZip(zip) ==
  IF ~isValidUSZipCode(zip) THEN NotFound
  ELSE LET estimate == regionalEstimates[parseInt(zip[1]) + 1]
           variance == (parseInt(zip[2]) - 5) * (CoordScale \div 2)
       IN Found(estimate.lat * (CoordScale \div 10) + variance,
                estimate.lon * (CoordScale \div 10) + variance, "estimation")

\* getCoordinatesFromZip.  The provider is called when the API key is set;
\* its error is caught, and the catch looks into the static table only.
getCoordinatesFromZip(zip, key, answer) ==
  IF zip = <<>> THEN NotFound
  ELSE IF key /\ answer = "throws"
    THEN IF InFallbacks(baseZip(zip)) THEN fallbackCoordinates(baseZip(zip)) ELSE NotFound
  ELSE IF key /\ answer = "found" THEN ProviderResult
  ELSE IF InFallbacks(baseZip(zip)) THEN fallbackCoordinates(baseZip(zip))
  ELSE IF isValidUSZipCode(baseZip(zip)) /\ estimateCoordinatesFromZip(baseZip(zip)).found
    THEN estimateCoordinatesFromZip(baseZip(zip))
  ELSE NotFound

\* the points distances are taken between, in degrees
Latitudes == {-90, -60, -30, 0, 30, 60, 90}
Longitudes == {-180, -120, -60, 0, 60, 120, 180}
Points == [latitude : Latitudes, longitude : Longitudes]
NoPoint == [latitude |-> 0, longitude |-> 0]

Abs(x) == IF x < 0 THEN -x ELSE x

\* degrees * (Math.PI / 180)
toRadians(degrees) ==
  LET magnitude == (Abs(degrees) * PiRad) \div 180
  IN IF degrees < 0 THEN -magnitude ELSE magnitude

\* Math.sin on the multiples of pi/12 between -pi and pi
SinTable == <<0, 2588, 5000, 7071, 8660, 9659, 10000>>
Sin(rad) ==
  LET twelfths == (Abs(rad) * 12) \div PiRad
      folded == IF twelfths > 6 THEN 12 - twelfths ELSE twelfths
      v == SinTable[folded + 1]
  IN IF rad < 0 THEN -v ELSE v

\* Math.cos
Cos(rad) == Sin(PiRad \div 2 - rad)

\* Math.sqrt of x / TrigScale, in 1/TrigScale
RECURSIVE SqrtBetween(_, _, _)
SqrtBetween(x, lo, hi) ==
  IF lo = hi THEN lo
  ELSE LET mid == (lo + hi + 1) \div 2
       IN IF mid * mid <= x THEN SqrtBetween(x, mid, hi) ELSE SqrtBetween(x, lo, mid - 1)
Sqrt(x) == SqrtBetween(x * TrigScale, 0, TrigScale)

\* the arctangent of num / den for 0 <= num <= den, den > 0, between the
\* tangents of 0, pi/12, pi/6 and pi/4
AtanKnots == << [tan |-> 0, rad |-> 0], [tan |-> 2679, rad |-> 2618],
                [tan |-> 5774, rad |-> 5236], [tan |-> 10000, rad |-> 7854] >>
AtanUnit(num, den) ==
  LET t == (num * TrigScale) \div den
      k == CHOOSE k \in 1..3 : AtanKnots[k].tan <= t /\ (t <= AtanKnots[k + 1].tan)
                               /\ \A j \in 1..(k - 1) : t > AtanKnots[j + 1].tan
  IN AtanKnots[k].rad + ((t - AtanKnots[k].tan) * (AtanKnots[k + 1].rad - AtanKnots[k].rad))
                           \div (AtanKnots[k + 1].tan - AtanKnots[k].tan)

\* Math.atan2(y, x) for y >= 0 and x >= 0
Atan2(y, x) ==
  IF y = 0 THEN 0
  ELSE IF y <= x THEN AtanUnit(y, x)
  ELSE PiRad \div 2 - AtanUnit(x, y)

\* the product of two numbers in 1/TrigScale, rounded the same way for
\* either sign as floating-point multiplication is
Mul(x, y) ==
  LET magnitude == (Abs(x) * Abs(y)) \div TrigScale
  IN IF (x < 0) = (y < 0) THEN magnitude ELSE -magnitude

\* the haversine term with the cosine of the first latitude taken twice
haversineA_firstLatitudeTwice(lat1, lon1, lat2, lon2) ==
  LET dLat == toRadians(lat2 - lat1)
      dLon == toRadians(lon2 - lon1)
  IN Mul(Sin(dLat \div 2), Sin(dLat \div 2))
     + Mul(Mul(Mul(Cos(toRadians(lat1)), Cos(toRadians(lat1))), Sin(dLon \div 2)),
           Sin(dLon \div 2))

\* const a = sin(dLat/2) * sin(dLat/2)
\*         + cos(lat1) * cos(lat2) * sin(dLon/2) * sin(dLon/2)
haversineA(lat1, lon1, lat2, lon2) ==
  LET dLat == toRadians(lat2 - lat1)
      dLon == toRadians(lon2 - lon1)
  IN Mul(Sin(dLat \div 2), Sin(dLat \div 2))
     + Mul(Mul(Mul(Cos(toRadians(lat1)), Cos(toRadians(lat2))), Sin(dLon \div 2)),
           Sin(dLon \div 2))

\* c = 2 * atan2(sqrt(a), sqrt(1 - a)); distance = R * c, rounded to two
\* decimals: the result is in hundredths of a mile
roundedMiles(a) ==
  LET c == 2 * Atan2(Sqrt(a), Sqrt(TrigScale - a))
  IN (EarthRadius * c + (AngleScale \div DistScale) \div 2) \div (AngleScale \div DistScale)

\* GeoUtils.calculateDistance and RoutingService.calculateDistance, the same
\* text in both files
GeoUtils_calculateDistance(lat1, lon1, lat2, lon2) ==
  roundedMiles(haversineA(lat1, lon1, lat2, lon2))
RoutingService_calculateDistance(lat1, lon1, lat2, lon2) ==
  roundedMiles(haversineA(lat1, lon1, lat2, lon2))

NotAsked == [returned |-> FALSE, found |-> FALSE, latitude |-> 0, longitude |-> 0,
             method |-> "none"]
NotMeasured == [by |-> "none", ab |-> 0, ba |-> 0, aa |-> 0, bb |-> 0]

\* no lead request is sent; a score of 0 says the field is absent
NoRequest == [lead_score |-> 0, leadScore |-> 0]
NotRouted == [done |-> FALSE,
              single |-> [locationId |-> 0, reason |-> "", lead_score |-> 0],
              batch |-> [locationId |-> 0, reason |-> "", lead_score |-> 0]]

\* no candidate search is asked for
NoList == [asked |-> FALSE, error |-> "", list |-> <<>>, degraded |-> FALSE]
CandIdle ==
  /\ candJob = "none"
  /\ candRows = <<>>
  /\ candLead = [leadScore |-> DefaultLeadScore, source |-> "google"]
  /\ candList = NoList
  /\ candScores = <<>>
  /\ candRequest = NoRequest
  /\ candRouted = NotRouted
  /\ candContacts = <<>>
  /\ candEnds = <<>>

\* no makeRequest call is made
NoCall == [pc |-> "idle", locationId |-> 0, awaiting |-> 0, got |-> "", attempts |-> 0,
           result |-> ""]
GhlIdle ==
  /\ accessTokens = [l \in Locs |-> FALSE]
  /\ tokenRefreshPromises = [l \in Locs |-> 0]
  /\ refreshing = [p \in Procs |-> 0]
  /\ caller = [p \in Procs |-> NoCall]
  /\ outcome = [p \in Procs |-> ""]
  /\ unauthorized = 0

\* a lead the store may hold from an earlier day, with its routing
\* decision: it is at the first location and counts in no ledger row of
\* today.  The concurrent runs of the first copy over a day without ledger
\* rows start with or without it (reassignLead is the same text in both
\* copies).
WithEarlierLead ==
  /\ concurrency # 1
  /\ impl = 1
  /\ \A l \in Locs : ~ledger[l].exists

EarlierLead ==
  [assigned_location_id |-> 1, backup_location_id |-> 0, lead_score |-> DefaultLeadScore,
   ghl_contact_id |-> 0, status |-> "assigned"]

EarlierDecision ==
  [lead_id |-> 1, original_location_id |-> 0, assigned_location_id |-> 1,
   routing_reason |-> "fallback_routing",
   routing_data |-> [distance |-> 0, suitabilityScore |-> 0, capacityUtilization |-> 0],
   viaDegrade |-> FALSE, by |-> 0]

\* --------------------------------------------------------------------- Init
LocationOk(l) ==
  \* only an active location within the radius has a seeded capacity row
  /\ (~active[l] => place[l] = "far")
  /\ (ledger[l].exists => active[l] /\ place[l] = "near")
  \* out-of-range coordinates: on every active location or on none
  /\ (place[l] = "invalid" => \A m \in Locs : active[m] => place[m] = "invalid")

\* the runs explored: requests served one at a time over every kind of
\* location set, with failures; or concurrent requests over locations that
\* are all active and near with the same capacity row, without failures
Workload ==
  \* the first copy never calls handleNoCapacityScenario with a candidate
  \* list (findAvailableLocations throws instead of returning none), so it is
  \* explored with the seeded Headquarters location only
  /\ impl = 1 => hq = 1
  \* the overflow location is looked up only when no active location is
  \* within the radius: a store without Headquarters is explored there
  /\ (\E l \in Locs : active[l] /\ place[l] = "near") => hq = 1
  /\ \/ /\ concurrency = 1
        /\ faultsOn = TRUE
     \/ /\ concurrency = NumReqs
        /\ faultsOn = FALSE
        /\ \A l \in Locs : active[l] /\ place[l] = "near" /\ ledger[l] = ledger[1]

Init ==
  /\ impl \in {1, 2}
  /\ active \in [Locs -> BOOLEAN]
  /\ place \in [Locs -> Places]
  /\ hq \in {0, 1}
  /\ concurrency \in {1, NumReqs}
  /\ faultsOn \in BOOLEAN
  /\ ledger \in [Locs -> {NoEntry} \cup
                    {[exists |-> TRUE, current_leads |-> r.current_leads,
                      max_capacity |-> r.max_capacity,
                      utilization_rate |-> Rate(r.current_leads, r.max_capacity),
                      rows |-> 1] : r \in SeedRows}]
  /\ \A l \in Locs : LocationOk(l)
  /\ Workload
  /\ \E earlier \in IF WithEarlierLead THEN BOOLEAN ELSE {FALSE} :
        /\ leads = IF earlier THEN <<EarlierLead>> ELSE <<>>
        /\ logs = IF earlier THEN <<EarlierDecision>> ELSE <<>>
  /\ alerts = {}
  /\ crm = {}
  /\ pc = [p \in Procs |-> "idle"]
  /\ loc = [p \in Procs |-> NoLocals]
  /\ result = [p \in Procs |-> NoResult]
  /\ seeded = ledger
  /\ faultsUsed = 0
  /\ batchLeads = <<>>
  /\ index = 0
  /\ results = <<>>
  /\ errors = <<>>
  /\ response = NoResponse
  /\ body = NoBody
  /\ called = <<>>
  /\ job = "none"
  /\ zipCode = <<>>
  /\ apiKey = FALSE
  /\ geocode = "none"
  /\ coordinates = NotAsked
  /\ pointA = NoPoint
  /\ pointB = NoPoint
  /\ miles = NotMeasured
  /\ CandIdle
  /\ GhlIdle

\* ------------------------------------------------------------------ actions
\* a step either meets a store or collaborator failure or does not
Fault ==
  /\ faultsOn
  /\ faultsUsed < MaxFaults
  /\ faultsUsed' = faultsUsed + 1

NoFault == faultsUsed' = faultsUsed

Goto(p, label) == pc' = [pc EXCEPT ![p] = label]
SetLocals(p, r) == loc' = [loc EXCEPT ![p] = r]

\* enter updateLocationCapacity(l, delta); ret is where the caller resumes
CallCapacity(p, l, delta, ret) ==
  [loc[p] EXCEPT !.capLoc = l, !.capDelta = delta, !.capRet = ret, !.capSeen = NoEntry]

CapacityEntry == IF impl = 1 THEN "cap_read" ELSE "cap_upsert"

\* requests are numbered in arrival order, and one enters only while the
\* workload has room for it
InFlight == {q \in Procs : pc[q] \notin {"idle", "done"}}
MayStart(p) ==
  /\ pc[p] = "idle"
  /\ \A q \in Procs : q < p => pc[q] # "idle"
  /\ Cardinality(InFlight) < concurrency

\* the responses already delivered, and the alerts sent with them, are gone
\* when the next request enters
Delivered == [q \in Procs |-> IF pc[q] = "done" THEN NoResult ELSE result[q]]

\* updateLocationCapacity returns: reassignLead goes on with the update of
\* the new location, the other callers resume
ReturnFromCapacity(p) ==
  IF loc[p].capRet = "r_second"
    THEN /\ Goto(p, CapacityEntry)
         /\ SetLocals(p, CallCapacity(p, loc[p].newLoc, 1, "r_commit"))
    ELSE /\ Goto(p, loc[p].capRet)
         /\ SetLocals(p, [loc[p] EXCEPT !.capLoc = 0, !.capDelta = 0, !.capRet = "",
                                        !.capSeen = NoEntry])

\* a request ends: its locals are gone
Finish(p) ==
  /\ Goto(p, "done")
  /\ SetLocals(p, NoLocals)

\* the lead requests: a postal code that geocodes or one that does not
\* (getCoordinatesFromZip returns null), and a lead score; the score varies
\* where a seeded capacity row puts a location at a threshold
LeadRequests ==
  {[NoLocals EXCEPT !.kind = "assign", !.zipOk = TRUE, !.leadScore = s, !.source = "google"] :
     s \in IF \E l \in Locs : seeded[l].exists THEN LeadScores ELSE {DefaultLeadScore}}
  \cup {[NoLocals EXCEPT !.kind = "assign", !.zipOk = FALSE, !.leadScore = DefaultLeadScore,
                         !.source = "google"]}

\* POST /assign_lead: a request enters assignLead; step 1 geocodes the
\* postal code and throws when there are no coordinates
StartAssign(p) ==
  /\ MayStart(p)
  /\ \E leadData \in LeadRequests :
       IF leadData.zipOk
         THEN /\ Goto(p, "find")
              /\ SetLocals(p, leadData)
         ELSE /\ Goto(p, "fallback")
              /\ SetLocals(p, [leadData EXCEPT !.originalError = "invalid_zip"])
  /\ result' = Delivered
  /\ alerts' = {}
  /\ crm' = {}
  /\ NoFault
  /\ UNCHANGED <<config, batchVars, geoVars, candVars, ghlVars, ledger, leads, logs>>

\* a lookup that inserts today's row for every location without one
capacityLookup_creating ==
  [l \in Locs |-> IF ledger[l].exists THEN ledger[l]
                  ELSE [exists |-> TRUE, current_leads |-> 0,
                        max_capacity |-> DefaultMaxCapacity, utilization_rate |-> 0,
                        rows |-> 1]]

\* the location_capacity table after findAvailableLocations has queried
\* today's rows: a select, the table is as it was
capacityLookup == ledger

\* assignLead steps 2 and 3 up to the call of updateLocationCapacity
FindAndSelect(p) ==
  /\ pc[p] = "find"
  /\ \/ /\ Fault
        /\ Goto(p, "fallback")
        /\ SetLocals(p, [loc[p] EXCEPT !.originalError = "store_error"])
        /\ UNCHANGED ledger
     \/ /\ NoFault
        /\ ledger' = capacityLookup
        /\ LET found == findAvailableLocations(loc[p].leadScore, loc[p].source)
           IN IF found.error # ""
                THEN /\ Goto(p, "fallback")
                     /\ SetLocals(p, [loc[p] EXCEPT !.originalError = found.error])
              ELSE IF Len(found.list) = 0
                THEN /\ Goto(p, "overflow")
                     /\ UNCHANGED loc
              ELSE LET selectedLocation == found.list[1]
                   IN /\ Goto(p, CapacityEntry)
                      /\ SetLocals(p, [CallCapacity(p, selectedLocation.id, 1, "exec")
                                        EXCEPT !.selected = selectedLocation.id,
                                               !.selDistance = selectedLocation.distance,
                                               !.selScore = selectedLocation.suitabilityScore,
                                               !.selUtil = selectedLocation.utilization_rate,
                                               !.degraded = found.degraded])
  /\ UNCHANGED <<config, batchVars, geoVars, candVars, ghlVars, leads, logs, alerts, crm, result>>

\* the rejection of updateLocationCapacity reaching the caller of assignLead
CapacityThrows_uncaught(p) ==
  /\ Finish(p)
  /\ result' = [result EXCEPT ![p] = [NoResult EXCEPT !.state = "RAISED",
                                                     !.originalError = "capacity_update_failed"]]

\* where a request goes when updateLocationCapacity of the second copy throws
CapacityThrows(p) ==
  IF loc[p].kind = "assign"
    THEN /\ Goto(p, "fallback")
         /\ SetLocals(p, [loc[p] EXCEPT !.originalError = "capacity_update_failed"])
         /\ UNCHANGED result
    ELSE /\ Finish(p)
         /\ result' = [result EXCEPT ![p] = [NoResult EXCEPT !.state = "RAISED",
                                                            !.originalError = "capacity_update_failed"]]

\* updateLocationCapacity, first copy: the read of the existing row
CapRead(p) ==
  /\ pc[p] = "cap_read"
  /\ impl = 1
  /\ \/ /\ Fault
        /\ ReturnFromCapacity(p)
     \/ /\ NoFault
        /\ Goto(p, "cap_write")
        /\ SetLocals(p, [loc[p] EXCEPT !.capSeen = ledger[loc[p].capLoc]])
  /\ UNCHANGED <<config, batchVars, geoVars, candVars, ghlVars, ledger, leads, logs, alerts, crm, result>>

\* a location_capacity table without the unique key
uniqueKey_absent == FALSE

\* table.unique(['location_id', 'capacity_date'])
uniqueKey == TRUE

\* an insert for a pair that has a row, where no unique key rejects it
SecondRow(row) == [row EXCEPT !.rows = @ + 1]

\* the row the first copy writes from what it read
CapWritten(seen, delta) ==
  IF seen.exists
    THEN LET newLeadCount == Max(0, seen.current_leads + delta)
         IN [exists |-> TRUE, current_leads |-> newLeadCount,
             max_capacity |-> seen.max_capacity,
             utilization_rate |-> Rate(newLeadCount, seen.max_capacity),
             rows |-> seen.rows]
    ELSE LET newLeadCount == Max(0, delta)
         IN [exists |-> TRUE, current_leads |-> newLeadCount,
             max_capacity |-> DefaultMaxCapacity,
             utilization_rate |-> Rate(newLeadCount, DefaultMaxCapacity),
             rows |-> 1]

\* updateLocationCapacity, first copy: patch of the row read, or insert of a
\* new one; an insert that meets a row violates the unique key and the error
\* is swallowed like every other
CapWrite(p) ==
  /\ pc[p] = "cap_write"
  /\ impl = 1
  /\ LET l == loc[p].capLoc
         seen == loc[p].capSeen
     IN \/ /\ Fault
           /\ UNCHANGED ledger
        \/ /\ NoFault
           /\ IF ~seen.exists /\ ledger[l].exists
                THEN IF uniqueKey
                       THEN UNCHANGED ledger
                       ELSE ledger' = [ledger EXCEPT ![l] = SecondRow(@)]
                ELSE ledger' = [ledger EXCEPT ![l] = CapWritten(seen, loc[p].capDelta)]
  /\ ReturnFromCapacity(p)
  /\ UNCHANGED <<config, batchVars, geoVars, candVars, ghlVars, leads, logs, alerts, crm, result>>

\* updateLocationCapacity, second copy: insert ... onConflict ... merge
CapUpsert(p) ==
  /\ pc[p] = "cap_upsert"
  /\ impl = 2
  /\ LET l == loc[p].capLoc
     IN \/ /\ Fault
           /\ CapacityThrows(p)
           /\ UNCHANGED ledger
        \/ /\ NoFault
           /\ ledger' = [ledger EXCEPT ![l] =
                 IF ledger[l].exists
                   THEN IF uniqueKey
                          THEN [ledger[l] EXCEPT !.current_leads = @ + loc[p].capDelta]
                          ELSE SecondRow(ledger[l])
                   ELSE [exists |-> TRUE, current_leads |-> loc[p].capDelta,
                         max_capacity |-> DefaultMaxCapacity, utilization_rate |-> 0,
                         rows |-> 1]]
           /\ Goto(p, "cap_recalc_read")
           /\ UNCHANGED <<loc, result>>
  /\ UNCHANGED <<config, batchVars, geoVars, candVars, ghlVars, leads, logs, alerts, crm>>

\* second copy: the read before the utilization rate is recalculated
CapRecalcRead(p) ==
  /\ pc[p] = "cap_recalc_read"
  /\ \/ /\ Fault
        /\ CapacityThrows(p)
     \/ /\ NoFault
        /\ Goto(p, "cap_recalc_patch")
        /\ SetLocals(p, [loc[p] EXCEPT !.capSeen = ledger[loc[p].capLoc]])
        /\ UNCHANGED result
  /\ UNCHANGED <<config, batchVars, geoVars, candVars, ghlVars, ledger, leads, logs, alerts, crm>>

\* second copy: patch of utilization_rate from the row read
CapRecalcPatch(p) ==
  /\ pc[p] = "cap_recalc_patch"
  /\ LET l == loc[p].capLoc
         capacity == loc[p].capSeen
     IN \/ /\ Fault
           /\ CapacityThrows(p)
           /\ UNCHANGED ledger
        \/ /\ NoFault
           /\ ledger' = [ledger EXCEPT ![l].utilization_rate =
                            Rate(capacity.current_leads, capacity.max_capacity)]
           /\ ReturnFromCapacity(p)
           /\ UNCHANGED result
  /\ UNCHANGED <<config, batchVars, geoVars, candVars, ghlVars, leads, logs, alerts, crm>>

\* updateGHLContact and triggerLocationAutomation catch what the CRM client
\* throws and log it
ghlErrorContained_not == FALSE

ghlErrorContained == TRUE

\* the awaited calls of executeAssignment that can reject, in program order;
\* "" is the call in which none does
ExecFailures == {"insert", "update_contact", "automation", "commit"}
CrmCalls == <<"update_contact", "automation">>

\* one call of executeAssignment: the instructions that went to the CRM
\* client before the commit, and whether the transaction committed
executeAssignment(failure) ==
  LET thrown == \/ failure \in {"insert", "commit"}
                \/ failure \in {"update_contact", "automation"} /\ ~ghlErrorContained
      attempted == IF failure = "insert" THEN {}
                   ELSE IF failure = "update_contact" /\ thrown THEN {1}
                   ELSE {1, 2}
  IN [committed |-> ~thrown,
      emitted |-> {[kind |-> CrmCalls[k], ok |-> CrmCalls[k] # failure] : k \in attempted}]

\* a write that replaces the decision the lead already has, if it has one
insertLog_replacing(rows, row) ==
  IF \E k \in 1..Len(rows) : rows[k].lead_id = row.lead_id
    THEN LET k == CHOOSE j \in 1..Len(rows) : rows[j].lead_id = row.lead_id
         IN [rows EXCEPT ![k] = row]
    ELSE Append(rows, row)

\* LeadRoutingLog.query(transaction).insert(row)
insertLog(rows, row) == Append(rows, row)

\* what executeAssignment leaves in the store and at the CRM client
Persist(p, l, reason, failure) ==
  LET out == executeAssignment(failure)
  IN /\ crm' = crm \cup {[contact |-> p, locationId |-> l, reason |-> reason,
                           kind |-> i.kind, ok |-> i.ok] : i \in out.emitted}
     /\ IF out.committed
          THEN /\ leads' = Append(leads, leadRow(p, l))
               /\ logs' = insertLog(logs, routingLogRow(p, Len(leads) + 1, l, reason))
          ELSE UNCHANGED <<leads, logs>>

\* the step meets the failure named, or none
Meets(failure) == IF failure = "" THEN NoFault ELSE Fault

\* notifyAdminTeam: the alert handed to the notification service
Alert(type, leadId, error) == [alertType |-> type, leadId |-> leadId, error |-> error]

Returned(state, l, reason, leadId) ==
  [NoResult EXCEPT !.state = state, !.success = TRUE, !.locationId = l, !.reason = reason,
                   !.leadId = leadId]

\* assignLead step 4: executeAssignment(leadData, selectedLocation,
\* 'optimal_match') and the return of the result
ExecuteOptimal(p) ==
  /\ pc[p] = "exec"
  /\ loc[p].kind = "assign"
  /\ \E failure \in ExecFailures \cup {""} :
       /\ Meets(failure)
       /\ Persist(p, loc[p].selected, "optimal_match", failure)
       /\ IF executeAssignment(failure).committed
            THEN /\ result' = [result EXCEPT ![p] =
                       Returned("ASSIGNED", loc[p].selected, "optimal_match", Len(leads) + 1)]
                 /\ Finish(p)
            ELSE /\ Goto(p, "fallback")
                 /\ SetLocals(p, [loc[p] EXCEPT !.originalError = "assignment_failed"])
                 /\ UNCHANGED result
  /\ UNCHANGED <<config, batchVars, geoVars, candVars, ghlVars, ledger, alerts>>

\* handleNoCapacityScenario, called when findAvailableLocations returned an
\* empty list; what it throws is caught by assignLead
HandleNoCapacity(p) ==
  /\ pc[p] = "overflow"
  /\ IF overflowLocation = 0
       THEN /\ NoFault
            /\ Goto(p, "fallback")
            /\ SetLocals(p, [loc[p] EXCEPT !.originalError = "no_overflow_location"])
            /\ UNCHANGED <<leads, logs, alerts, crm, result>>
       ELSE \E failure \in ExecFailures \cup {"", "notify"} :
              LET inExec == IF failure = "notify" THEN "" ELSE failure
              IN /\ Meets(failure)
                 /\ Persist(p, overflowLocation, "no_capacity_overflow", inExec)
                 /\ IF ~executeAssignment(inExec).committed
                      THEN \* executeAssignment rolled back and threw
                           /\ Goto(p, "fallback")
                           /\ SetLocals(p, [loc[p] EXCEPT !.originalError = "assignment_failed"])
                           /\ UNCHANGED <<alerts, result>>
                    ELSE IF failure = "notify"
                      THEN \* committed, then notifyAdminTeam throws
                           /\ Goto(p, "fallback")
                           /\ SetLocals(p, [loc[p] EXCEPT !.originalError = "notify_failed"])
                           /\ UNCHANGED <<alerts, result>>
                    ELSE /\ alerts' = alerts \cup {Alert("capacity_overflow", Len(leads) + 1, "")}
                         /\ result' = [result EXCEPT ![p] =
                               [Returned("OVERFLOW", overflowLocation, "no_capacity_overflow",
                                         Len(leads) + 1)
                                  EXCEPT !.requiresManualReview = TRUE]]
                         /\ Finish(p)
  /\ UNCHANGED <<config, batchVars, geoVars, candVars, ghlVars, ledger>>

Failed(p, fallbackError) ==
  [NoResult EXCEPT !.state = "FAILED", !.success = FALSE,
                   !.originalError = loc[p].originalError, !.fallbackError = fallbackError]

\* fallbackRouting(leadData, originalError), the catch of assignLead
FallbackRouting(p) ==
  /\ pc[p] = "fallback"
  /\ Finish(p)
  /\ IF defaultLocation = 0
       THEN /\ NoFault
            /\ result' = [result EXCEPT ![p] = Failed(p, "no_default_location")]
            /\ UNCHANGED <<leads, logs, alerts, crm>>
       ELSE \E failure \in ExecFailures \cup {"", "notify"} :
              LET inExec == IF failure = "notify" THEN "" ELSE failure
              IN /\ Meets(failure)
                 /\ Persist(p, defaultLocation, "fallback_routing", inExec)
                 /\ IF ~executeAssignment(inExec).committed
                      THEN \* the query or executeAssignment throws
                           /\ result' = [result EXCEPT ![p] = Failed(p, "assignment_failed")]
                           /\ UNCHANGED alerts
                    ELSE IF failure = "notify"
                      THEN \* committed, then notifyAdminTeam throws
                           /\ result' = [result EXCEPT ![p] = Failed(p, "notify_failed")]
                           /\ UNCHANGED alerts
                    ELSE /\ alerts' = alerts \cup
                               {Alert("routing_fallback", Len(leads) + 1, loc[p].originalError)}
                         /\ result' = [result EXCEPT ![p] =
                               [Returned("FALLBACK", defaultLocation, "fallback_routing",
                                         Len(leads) + 1)
                                  EXCEPT !.requiresReview = TRUE,
                                         !.originalError = loc[p].originalError]]
  /\ UNCHANGED <<config, batchVars, geoVars, candVars, ghlVars, ledger>>

\* the precondition checked for existence only, not for the active flag
reassignRejected_anyLocation(leadId, newLocationId) ==
  IF leadId > Len(leads) THEN "lead_not_found"
  ELSE IF newLocationId \notin Locs THEN "invalid_location"
  ELSE ""

\* the errors reassignLead throws before it writes: Lead not found, Invalid
\* location (missing or inactive); "" when it goes on
reassignRejected(leadId, newLocationId) ==
  IF leadId > Len(leads) THEN "lead_not_found"
  ELSE IF newLocationId \notin Locs \/ ~active[newLocationId] THEN "invalid_location"
  ELSE ""

\* POST /:leadId/reassign: reassignLead up to the first capacity update.
\* The lead and the location are read; the patch of the lead and the new
\* log row are written through the transaction and stay invisible.  The
\* error thrown for a location names the id it rejects.  before is the ledger as the call
\* found it, kept for the runs of one request at a time.
StartReassign(p) ==
  /\ MayStart(p)
  /\ \E leadId \in 1..NumReqs, newLocationId \in 0..NumLocs :
       LET rejected == reassignRejected(leadId, newLocationId)
       IN IF rejected # ""
            THEN /\ Finish(p)
                 /\ result' = [Delivered EXCEPT ![p] =
                       [NoResult EXCEPT !.state = "RAISED", !.originalError = rejected,
                          !.locationId = IF rejected = "invalid_location" THEN newLocationId ELSE 0]]
            ELSE /\ Goto(p, CapacityEntry)
                 /\ SetLocals(p, [CallCapacity(p, leads[leadId].assigned_location_id, -1, "r_second")
                                   EXCEPT !.kind = "reassign", !.leadId = leadId,
                                          !.newLoc = newLocationId,
                                          !.oldLoc = leads[leadId].assigned_location_id,
                                          !.before = IF concurrency = 1 THEN ledger ELSE <<>>])
                 /\ result' = Delivered
  /\ alerts' = {}
  /\ crm' = {}
  /\ NoFault
  /\ UNCHANGED <<config, batchVars, geoVars, candVars, ghlVars, ledger, leads, logs>>

\* the reassignment logged with the previous location as the result
reassignLogRow_stale(p) ==
  [lead_id |-> loc[p].leadId, original_location_id |-> loc[p].oldLoc,
   assigned_location_id |-> loc[p].oldLoc, routing_reason |-> "manual_reassignment",
   routing_data |-> [distance |-> 0, suitabilityScore |-> 0, capacityUtilization |-> 0],
   viaDegrade |-> FALSE, by |-> p]

\* the lead_routing_logs row reassignLead inserts
reassignLogRow(p) ==
  [lead_id |-> loc[p].leadId, original_location_id |-> loc[p].oldLoc,
   assigned_location_id |-> loc[p].newLoc, routing_reason |-> "manual_reassignment",
   routing_data |-> [distance |-> 0, suitabilityScore |-> 0, capacityUtilization |-> 0],
   viaDegrade |-> FALSE, by |-> p]

\* reassignLead: updateGHLContact and transaction.commit(), or the rollback
ReassignCommit(p) ==
  /\ pc[p] = "r_commit"
  /\ Finish(p)
  /\ \/ /\ Fault
        /\ result' = [result EXCEPT ![p] =
              [NoResult EXCEPT !.state = "RAISED", !.originalError = "reassignment_failed"]]
        /\ UNCHANGED <<leads, logs>>
     \/ /\ NoFault
        /\ leads' = [leads EXCEPT ![loc[p].leadId].assigned_location_id = loc[p].newLoc,
                                  ![loc[p].leadId].backup_location_id = loc[p].oldLoc]
        /\ logs' = insertLog(logs, reassignLogRow(p))
        /\ result' = [result EXCEPT ![p] =
              [NoResult EXCEPT !.state = "REASSIGNED", !.success = TRUE,
                               !.locationId = loc[p].newLoc, !.leadId = loc[p].leadId]]
  /\ UNCHANGED <<config, batchVars, geoVars, candVars, ghlVars, ledger, alerts, crm>>

Next ==
  \E p \in Procs :
    \/ StartAssign(p)
    \/ FindAndSelect(p)
    \/ CapRead(p)
    \/ CapWrite(p)
    \/ CapUpsert(p)
    \/ CapRecalcRead(p)
    \/ CapRecalcPatch(p)
    \/ ExecuteOptimal(p)
    \/ HandleNoCapacity(p)
    \/ FallbackRouting(p)
    \/ StartReassign(p)
    \/ ReassignCommit(p)

Spec == Init /\ [][Next]_vars

\* ------------------------------------------------------- POST /assign_leads
\* a lead request as the routes' validation sees it: which of the required
\* fields it carries with a truthy value
LeadBodies ==
  [isNull : {FALSE}, zip_code : BOOLEAN, source : BOOLEAN, ghl_contact_id : BOOLEAN]

\* the items of a batch: JSON null, or a lead request
BatchItems == {NoBody} \cup LeadBodies

requiredFields == {"zip_code", "source", "ghl_contact_id"}

\* a validation that asks for the postal code only
missingFields_zipOnly(lead) == {field \in {"zip_code"} : ~lead[field]}

\* requiredFields.filter(field => !lead[field])
missingFields(lead) == {field \in requiredFields : ~lead[field]}

\* what assignLead returns to the route: it never raises, and its four
\* return statements give success true (optimal match, overflow, fallback)
\* or success false without an assignment (complete routing failure)
AssignResults ==
  {[state |-> st, success |-> st # "FAILED", leadId |-> IF st = "FAILED" THEN 0 ELSE 1] :
     st \in {"ASSIGNED", "OVERFLOW", "FALLBACK", "FAILED"}}

\* the route pushes what assignLead returned onto results, status assigned
resultsEntry(i, r) == [index |-> i, status |-> "assigned", leadId |-> r.leadId, result |-> r]

\* a per-item error: a validation error has no status
errorsEntry(i, status) ==
  [index |-> i, status |-> status, leadId |-> 0,
   result |-> [state |-> "NONE", success |-> FALSE, leadId |-> 0]]

\* a POST /assign_leads or a POST /assign_lead waits to be served, nothing
\* else is going on
BatchInit ==
  /\ impl = 1
  /\ active = [l \in Locs |-> TRUE]
  /\ place = [l \in Locs |-> "near"]
  /\ hq = 1
  /\ concurrency = 1
  /\ faultsOn = FALSE
  /\ ledger = [l \in Locs |-> NoEntry]
  /\ seeded = ledger
  /\ leads = <<>>
  /\ logs = <<>>
  /\ alerts = {}
  /\ crm = {}
  /\ pc = [p \in Procs |-> "idle"]
  /\ loc = [p \in Procs |-> NoLocals]
  /\ result = [p \in Procs |-> NoResult]
  /\ faultsUsed = 0
  /\ \/ /\ batchLeads \in UNION {[1..n -> BatchItems] : n \in 0..MaxBatch}
        /\ body = NoBody
     \/ /\ batchLeads = <<>>
        /\ body \in LeadBodies
  /\ index = 0
  /\ results = <<>>
  /\ errors = <<>>
  /\ response = NoResponse
  /\ called = <<>>
  /\ job = "none"
  /\ zipCode = <<>>
  /\ apiKey = FALSE
  /\ geocode = "none"
  /\ coordinates = NotAsked
  /\ pointA = NoPoint
  /\ pointB = NoPoint
  /\ miles = NotMeasured
  /\ CandIdle
  /\ GhlIdle

routingVars == <<impl, active, place, hq, ledger, leads, logs, alerts, crm, pc, loc, result,
                 concurrency, faultsOn, seeded, faultsUsed>>

\* one turn of the loop over leads.entries().  Validation of null throws
\* inside the item's try, and so does its catch when it reads
\* lead.first_name: the error leaves the loop and the route answers 500.
BatchItem ==
  /\ body = NoBody
  /\ response = NoResponse
  /\ index < Len(batchLeads)
  /\ LET lead == batchLeads[index + 1]
     IN IF lead.isNull
          THEN /\ response' = [NoResponse EXCEPT !.status = 500, !.error = "batch_processing_error"]
               /\ UNCHANGED <<index, results, errors, called>>
        ELSE IF missingFields(lead) # {}
          THEN /\ errors' = Append(errors, errorsEntry(index, ""))
               /\ index' = index + 1
               /\ UNCHANGED <<results, response, called>>
          ELSE \E r \in AssignResults :
                  /\ called' = Append(called, index)
                  /\ results' = Append(results, resultsEntry(index, r))
                  /\ index' = index + 1
                  /\ UNCHANGED <<errors, response>>
  /\ UNCHANGED <<routingVars, geoVars, candVars, ghlVars, batchLeads, body>>

\* the route answers: 400 for an empty list, the summary after the loop
BatchRespond ==
  /\ body = NoBody
  /\ response = NoResponse
  /\ index = Len(batchLeads)
  /\ response' = IF Len(batchLeads) = 0
                   THEN [NoResponse EXCEPT !.status = 400, !.error = "leads_array_required"]
                   ELSE [status |-> 200,
                         success |-> (Len(errors) = 0),
                         total |-> Len(batchLeads),
                         successful |-> Len(results),
                         failed |-> Len(errors),
                         assignments |-> results,
                         errors |-> errors,
                         error |-> ""]
  /\ UNCHANGED <<routingVars, geoVars, candVars, ghlVars, batchLeads, index, results, errors, body, called>>

\* POST /assign_lead: 400 without the postal code or another required
\* field; otherwise assignLead is called with the body and what it returns
\* is sent with success true
AssignLeadRoute ==
  /\ body # NoBody
  /\ response = NoResponse
  /\ IF ~body.zip_code
       THEN /\ response' = [NoResponse EXCEPT !.status = 400, !.error = "zip_code_required"]
            /\ UNCHANGED <<results, called>>
     ELSE IF missingFields(body) # {}
       THEN /\ response' = [NoResponse EXCEPT !.status = 400, !.error = "missing_required_fields"]
            /\ UNCHANGED <<results, called>>
       ELSE \E r \in AssignResults :
               /\ called' = Append(called, 0)
               /\ results' = Append(results, resultsEntry(0, r))
               /\ response' = [NoResponse EXCEPT !.status = 200, !.success = TRUE,
                                                 !.assignments = results']
  /\ UNCHANGED <<routingVars, geoVars, candVars, ghlVars, batchLeads, index, errors, body>>

BatchNext == BatchItem \/ BatchRespond \/ AssignLeadRoute

BatchSpec == BatchInit /\ [][BatchNext]_vars

\* ------------------------------------------------------ calls into geoUtils
\* one call waits to be made: a postal code to geocode, or two points to
\* take the distance between; the routing service and the routes are idle
GeoInit ==
  /\ impl = 1
  /\ active = [l \in Locs |-> TRUE]
  /\ place = [l \in Locs |-> "near"]
  /\ hq = 1
  /\ concurrency = 1
  /\ faultsOn = FALSE
  /\ ledger = [l \in Locs |-> NoEntry]
  /\ seeded = ledger
  /\ leads = <<>>
  /\ logs = <<>>
  /\ alerts = {}
  /\ crm = {}
  /\ pc = [p \in Procs |-> "idle"]
  /\ loc = [p \in Procs |-> NoLocals]
  /\ result = [p \in Procs |-> NoResult]
  /\ faultsUsed = 0
  /\ batchLeads = <<>>
  /\ index = 0
  /\ results = <<>>
  /\ errors = <<>>
  /\ response = NoResponse
  /\ body = NoBody
  /\ called = <<>>
  /\ coordinates = NotAsked
  /\ miles = NotMeasured
  /\ CandIdle
  /\ GhlIdle
  /\ \/ /\ job = "geocode"
        /\ zipCode \in ZipInputs
        /\ apiKey \in BOOLEAN
        /\ geocode \in IF apiKey THEN GeocodeAnswers ELSE {"none"}
        /\ pointA = NoPoint
        /\ pointB = NoPoint
     \/ /\ job = "distance"
        /\ zipCode = <<>>
        /\ apiKey = FALSE
        /\ geocode = "none"
        /\ pointA \in Points
        /\ pointB \in Points

\* await geoUtils.getCoordinatesFromZip(zip_code)
Geocode ==
  /\ job = "geocode"
  /\ ~coordinates.returned
  /\ coordinates' = [returned |-> TRUE] @@ getCoordinatesFromZip(zipCode, apiKey, geocode)
  /\ UNCHANGED <<routingVars, batchVars, candVars, ghlVars, job, zipCode, apiKey, geocode, pointA, pointB, miles>>

\* calculateDistance between the two points, both ways, and from each point
\* to itself, by either implementation
Distance ==
  /\ job = "distance"
  /\ miles.by = "none"
  /\ \/ miles' = [by |-> "GeoUtils",
                  ab |-> GeoUtils_calculateDistance(pointA.latitude, pointA.longitude,
                                                    pointB.latitude, pointB.longitude),
                  ba |-> GeoUtils_calculateDistance(pointB.latitude, pointB.longitude,
                                                    pointA.latitude, pointA.longitude),
                  aa |-> GeoUtils_calculateDistance(pointA.latitude, pointA.longitude,
                                                    pointA.latitude, pointA.longitude),
                  bb |-> GeoUtils_calculateDistance(pointB.latitude, pointB.longitude,
                                                    pointB.latitude, pointB.longitude)]
     \/ miles' = [by |-> "RoutingService",
                  ab |-> RoutingService_calculateDistance(pointA.latitude, pointA.longitude,
                                                          pointB.latitude, pointB.longitude),
                  ba |-> RoutingService_calculateDistance(pointB.latitude, pointB.longitude,
                                                          pointA.latitude, pointA.longitude),
                  aa |-> RoutingService_calculateDistance(pointA.latitude, pointA.longitude,
                                                          pointA.latitude, pointA.longitude),
                  bb |-> RoutingService_calculateDistance(pointB.latitude, pointB.longitude,
                                                          pointB.latitude, pointB.longitude)]
  /\ UNCHANGED <<routingVars, batchVars, candVars, ghlVars, job, zipCode, apiKey, geocode, pointA, pointB,
                 coordinates>>

GeoNext == Geocode \/ Distance

GeoSpec == GeoInit /\ [][GeoNext]_vars

\* ------------------------------------------- the candidate search on rows
\* a location row joined with today's capacity row: distance in hundredths
\* of a mile, current leads of a max_capacity of 100, facebook performance
\* score in 1/RateScale
candRow(distance, current, fb) ==
  [id |-> 0,
   distance |-> distance,
   current_leads |-> current,
   max_capacity |-> DefaultMaxCapacity,
   utilization_rate |-> Rate(current, DefaultMaxCapacity),
   facebook_performance_score |-> fb,
   suitabilityScore |-> 0]

\* the rows of a search: two rows of equal score at 2 and at 9.5 miles, two
\* rows at the radius whose scores are floored, at different utilization,
\* two full rows at 1 and at 30 miles, a row with a facebook performance
\* score as seeded (85.5), and a row beyond the radius
FindRows ==
  { candRow(200, 50, 0), candRow(950, 0, 0),
    candRow(5000, 50, 0), candRow(5000, 0, 0),
    candRow(100, 95, 0), candRow(3000, 95, 0),
    candRow(200, 50, 855000), candRow(6000, 0, 0) }

\* the rows scored one by one
ScoreRows ==
  { candRow(d, current, fb) : d \in {0, 200, 950, 3000, 5000, 6000},
                              current \in {0, 50, 59, 60, 95, 120},
                              fb \in {0, 8000, 8001, 855000} }

LeadInputs == [leadScore : LeadScores, source : {"google", "facebook"}]

\* the rows a request is routed over: a row at 1 mile and utilization 0.85,
\* open to high-value leads only, a row at 2 miles and a row at the radius,
\* both half full
RouteRows == { candRow(100, 85, 0), candRow(200, 50, 0), candRow(5000, 50, 0) }

\* the score fields of a lead request with zip_code, source and
\* ghl_contact_id: lead_score as POST /assign_leads reads it, leadScore as
\* assignLead reads it; 0: absent
LeadRequestBodies == [lead_score : {0} \cup LeadScores, leadScore : {0} \cup LeadScores]

\* POST /assign_lead: const leadData = req.body
singleLeadData(request) ==
  [zip_code |-> TRUE, zipCode |-> FALSE, leadScore |-> request.leadScore]

\* POST /assign_leads: leadScore: lead.lead_score || 50
batchLeadData(request) ==
  [zip_code |-> TRUE, zipCode |-> FALSE,
   leadScore |-> IF request.lead_score # 0 THEN request.lead_score ELSE DefaultLeadScore]

\* lead_score: parseInt(leadData.leadScore) || 50
persistedLeadScore(leadData) ==
  IF leadData.leadScore # 0 THEN leadData.leadScore ELSE DefaultLeadScore

\* assignLead(leadData) over the rows: the first copy reads zip_code, the
\* second zipCode, and an absent zip code goes to fallback routing; the
\* first of the candidate list is the optimal match; without a list the
\* request goes to the no-capacity scenario (an empty list) or to fallback
\* routing (an error), which choose without the lead's fields
assignLeadOver(leadData) ==
  LET zipRead == IF impl = 1 THEN leadData.zip_code ELSE leadData.zipCode
      found == IF impl = 1 THEN rankLocations1(candRows, leadData.leadScore, candLead.source)
               ELSE rankLocations2(candRows, leadData.leadScore, candLead.source)
  IN [locationId |-> IF zipRead /\ found.list # <<>> THEN found.list[1].id ELSE 0,
      reason |-> IF ~zipRead \/ found.error # "" THEN "fallback_routing"
                 ELSE IF found.list = <<>> THEN "no_capacity_overflow"
                 ELSE "optimal_match",
      lead_score |-> persistedLeadScore(leadData)]

\* the id of a row is its place in the store's answer
WithIds(f) == [i \in 1..Len(f) |-> [f[i] EXCEPT !.id = i]]

\* e-mail addresses as sequences of characters: none, one without "@", one
\* without a local part, a well-formed one
EmailInputs == { <<>>, <<"j", "o", "h", "n">>, <<"@", "t", ".", "c">>, <<"j", "@", "t", ".", "c">> }

\* the contact fields of leadData; "" and <<>>: absent
ContactFields ==
  [firstName : {"", "John"}, lastName : {"", "Doe"}, phone : {"", "555"}, email : EmailInputs]

\* the store the two requests are routed over: no location, or one half
\* full at 2 miles
ContactRows == { <<>>, WithIds(<<candRow(200, 50, 0)>>) }

\* a candidate search or a scoring waits to be made on rows the store has
\* returned in some order; the routing service, the routes and geoUtils
\* are idle
CandInit ==
  /\ impl \in {1, 2}
  /\ active = [l \in Locs |-> TRUE]
  /\ place = [l \in Locs |-> "near"]
  /\ hq = 1
  /\ concurrency = 1
  /\ faultsOn = FALSE
  /\ ledger = [l \in Locs |-> NoEntry]
  /\ seeded = ledger
  /\ leads = <<>>
  /\ logs = <<>>
  /\ alerts = {}
  /\ crm = {}
  /\ pc = [p \in Procs |-> "idle"]
  /\ loc = [p \in Procs |-> NoLocals]
  /\ result = [p \in Procs |-> NoResult]
  /\ faultsUsed = 0
  /\ batchLeads = <<>>
  /\ index = 0
  /\ results = <<>>
  /\ errors = <<>>
  /\ response = NoResponse
  /\ body = NoBody
  /\ called = <<>>
  /\ job = "none"
  /\ zipCode = <<>>
  /\ apiKey = FALSE
  /\ geocode = "none"
  /\ coordinates = NotAsked
  /\ pointA = NoPoint
  /\ pointB = NoPoint
  /\ miles = NotMeasured
  /\ GhlIdle
  /\ candLead \in LeadInputs
  /\ candList = NoList
  /\ candScores = <<>>
  /\ candRouted = NotRouted
  /\ candEnds = <<>>
  /\ \/ /\ candJob = "find"
        /\ \E f \in UNION {[1..n -> FindRows] : n \in 0..MaxRows} : candRows = WithIds(f)
        /\ candRequest = NoRequest
        /\ candContacts = <<>>
     \/ /\ candJob = "score"
        /\ \E f \in [1..1 -> ScoreRows] : candRows = WithIds(f)
        /\ candRequest = NoRequest
        /\ candContacts = <<>>
     \/ /\ candJob = "route"
        /\ \E f \in UNION {[1..n -> RouteRows] : n \in 0..MaxRows} : candRows = WithIds(f)
        /\ candRequest \in LeadRequestBodies
        /\ candLead.leadScore = DefaultLeadScore
        /\ candContacts = <<>>
     \/ /\ candJob = "contacts"
        /\ candRows \in ContactRows
        /\ candRequest = NoRequest
        /\ candContacts \in [1..2 -> ContactFields]

\* findAvailableLocations from the joined rows on
FindAvailable ==
  /\ candJob = "find"
  /\ ~candList.asked
  /\ candList' = [asked |-> TRUE] @@
                   (IF impl = 1
                      THEN rankLocations1(candRows, candLead.leadScore, candLead.source)
                      ELSE rankLocations2(candRows, candLead.leadScore, candLead.source))
  /\ UNCHANGED <<routingVars, batchVars, geoVars, ghlVars, candJob, candRows, candLead, candScores,
                 candRequest, candRouted, candContacts, candEnds>>

\* calculateSuitabilityScore(location, leadScore, source) for each row
ScoreRow ==
  /\ candJob = "score"
  /\ candScores = <<>>
  /\ candScores' = [i \in 1..Len(candRows) |->
                      calculateSuitabilityScore(candRows[i], candLead.leadScore, candLead.source)]
  /\ UNCHANGED <<routingVars, batchVars, geoVars, ghlVars, candJob, candRows, candLead, candList,
                 candRequest, candRouted, candContacts, candEnds>>

\* first_name: String(leadData.firstName || ''), ... email: String(leadData.email || '')
leadInsertData(contact) ==
  [first_name |-> contact.firstName, last_name |-> contact.lastName,
   email |-> contact.email, phone |-> contact.phone]

\* format: 'email': characters, one "@", characters
IsEmail(e) ==
  \E i \in 2..(Len(e) - 1) : e[i] = "@" /\ \A j \in 1..Len(e) : e[j] = "@" => j = i

\* Lead.jsonSchema at Lead.query(trx).insert: the name and phone are strings,
\* the e-mail address is a string of the email format
validates(row) == IsEmail(row.email)

\* assignLead for a request with these contact fields: every path inserts
\* the lead through executeAssignment; an insert that is rejected rolls back
\* and raises, assignLead catches it and calls fallbackRouting, whose
\* executeAssignment inserts the same fields and is rejected again
assignLeadWith(contact) ==
  LET found == IF impl = 1 THEN rankLocations1(candRows, candLead.leadScore, candLead.source)
               ELSE rankLocations2(candRows, candLead.leadScore, candLead.source)
  IN IF ~validates(leadInsertData(contact))
       THEN [state |-> "FAILED", locationId |-> 0]
     ELSE IF found.error # "" THEN [state |-> "FALLBACK", locationId |-> 0]
     ELSE IF found.list = <<>> THEN [state |-> "OVERFLOW", locationId |-> 0]
     ELSE [state |-> "ASSIGNED", locationId |-> found.list[1].id]

\* the two requests are routed, each from the same store state
RouteContacts ==
  /\ candJob = "contacts"
  /\ candEnds = <<>>
  /\ candEnds' = [i \in 1..2 |-> assignLeadWith(candContacts[i])]
  /\ UNCHANGED <<routingVars, batchVars, geoVars, ghlVars, candJob, candRows, candLead, candList,
                 candScores, candRequest, candRouted, candContacts>>

\* the request is routed from the same store state once through POST
\* /assign_lead and once as the one item of POST /assign_leads
RouteBoth ==
  /\ candJob = "route"
  /\ ~candRouted.done
  /\ candRouted' = [done |-> TRUE,
                     single |-> assignLeadOver(singleLeadData(candRequest)),
                     batch |-> assignLeadOver(batchLeadData(candRequest))]
  /\ UNCHANGED <<routingVars, batchVars, geoVars, ghlVars, candJob, candRows, candLead, candList,
                 candScores, candRequest, candContacts, candEnds>>

CandNext == FindAvailable \/ ScoreRow \/ RouteBoth \/ RouteContacts

CandSpec == CandInit /\ [][CandNext]_vars

\* ------------------------------------------------ src/utils/ghlApiClient.js
\* Callers are makeRequest calls with a locationId.  A promise that settles
\* hands its value to every caller awaiting it; their continuations run
\* before any other event is served, the one registered first (the caller
\* that started the refresh) first.

\* some continuation of a settled promise has still to run
Draining == \E q \in Procs : caller[q].pc = "await" /\ caller[q].got # ""

\* the check for a refresh in progress left out
refreshInProgress_ignored(l) == FALSE

\* this.tokenRefreshPromises.has(locationId)
refreshInProgress(l) == tokenRefreshPromises[l] # 0

\* error.config?.retried in the catch of makeRequest: the flag was set on
\* the config of the request before; every call of makeRequest builds a
\* new config, and the error of the new request carries that one
retried(p) == FALSE

\* a valid token may be cached for a location or not; no call is made yet;
\* the routing service, the routes, geoUtils and the candidate search are
\* idle
GhlInit ==
  /\ impl = 1
  /\ active = [l \in Locs |-> TRUE]
  /\ place = [l \in Locs |-> "near"]
  /\ hq = 1
  /\ concurrency = 1
  /\ faultsOn = FALSE
  /\ ledger = [l \in Locs |-> NoEntry]
  /\ seeded = ledger
  /\ leads = <<>>
  /\ logs = <<>>
  /\ alerts = {}
  /\ crm = {}
  /\ pc = [p \in Procs |-> "idle"]
  /\ loc = [p \in Procs |-> NoLocals]
  /\ result = [p \in Procs |-> NoResult]
  /\ faultsUsed = 0
  /\ batchLeads = <<>>
  /\ index = 0
  /\ results = <<>>
  /\ errors = <<>>
  /\ response = NoResponse
  /\ body = NoBody
  /\ called = <<>>
  /\ job = "none"
  /\ zipCode = <<>>
  /\ apiKey = FALSE
  /\ geocode = "none"
  /\ coordinates = NotAsked
  /\ pointA = NoPoint
  /\ pointB = NoPoint
  /\ miles = NotMeasured
  /\ CandIdle
  /\ accessTokens \in [Locs -> BOOLEAN]
  /\ tokenRefreshPromises = [l \in Locs |-> 0]
  /\ refreshing = [p \in Procs |-> 0]
  /\ caller = [p \in Procs |-> NoCall]
  /\ outcome = [p \in Procs |-> ""]
  /\ unauthorized = 0

\* makeRequest(method, endpoint, data, locationId) is called
MakeRequest(p) ==
  /\ ~Draining
  /\ caller[p].pc = "idle"
  /\ \E l \in Locs :
       caller' = [caller EXCEPT ![p] = [NoCall EXCEPT !.pc = "token", !.locationId = l,
                                                      !.attempts = 1]]
  /\ UNCHANGED <<routingVars, batchVars, geoVars, candVars, accessTokens, tokenRefreshPromises,
                 refreshing, outcome, unauthorized>>

\* getAccessToken(locationId) up to its return or its await: a valid cached
\* token is returned; a refresh in progress is awaited; otherwise
\* refreshAccessToken is started and its promise is set as the entry
GetAccessToken(p) ==
  /\ ~Draining
  /\ caller[p].pc = "token"
  /\ LET l == caller[p].locationId
     IN IF accessTokens[l]
          THEN /\ caller' = [caller EXCEPT ![p].pc = "request"]
               /\ UNCHANGED <<tokenRefreshPromises, refreshing>>
        ELSE IF refreshInProgress(l)
          THEN /\ caller' = [caller EXCEPT ![p].pc = "await",
                                           ![p].awaiting = tokenRefreshPromises[l]]
               /\ UNCHANGED <<tokenRefreshPromises, refreshing>>
        ELSE /\ refreshing' = [refreshing EXCEPT ![p] = l]
             /\ tokenRefreshPromises' = [tokenRefreshPromises EXCEPT ![l] = p]
             /\ caller' = [caller EXCEPT ![p].pc = "await", ![p].awaiting = p]
  /\ UNCHANGED <<routingVars, batchVars, geoVars, candVars, accessTokens, outcome, unauthorized>>

\* refreshAccessToken of caller p settles: the token endpoint answers and
\* the new token is cached, or the call fails and Authentication failed is
\* thrown; every caller awaiting the promise is handed the result
RefreshSettles(p) ==
  /\ ~Draining
  /\ refreshing[p] # 0
  /\ \E settled \in {"token", "authentication_failed"} :
       /\ accessTokens' = IF settled = "token"
                            THEN [accessTokens EXCEPT ![refreshing[p]] = TRUE]
                            ELSE accessTokens
       /\ outcome' = [outcome EXCEPT ![p] = settled]
       /\ caller' = [q \in Procs |->
                       IF caller[q].pc = "await" /\ caller[q].awaiting = p /\ caller[q].got = ""
                         THEN [caller[q] EXCEPT !.got = settled]
                         ELSE caller[q]]
  /\ refreshing' = [refreshing EXCEPT ![p] = 0]
  /\ UNCHANGED <<routingVars, batchVars, geoVars, candVars, tokenRefreshPromises, unauthorized>>

\* the continuation of getAccessToken after its await: the caller that
\* started the refresh deletes the entry; the token goes to makeRequest,
\* the error goes through the catch of makeRequest (no status) to its caller
Resume(q) ==
  /\ caller[q].pc = "await"
  /\ caller[q].got # ""
  /\ \/ caller[q].awaiting = q
     \/ ~(caller[caller[q].awaiting].pc = "await" /\ caller[caller[q].awaiting].got # "")
  /\ tokenRefreshPromises' =
       IF caller[q].awaiting = q
         THEN [tokenRefreshPromises EXCEPT ![caller[q].locationId] = 0]
         ELSE tokenRefreshPromises
  /\ caller' = [caller EXCEPT ![q] =
                  IF caller[q].got = "token"
                    THEN [@ EXCEPT !.pc = "request", !.awaiting = 0, !.got = ""]
                    ELSE [@ EXCEPT !.pc = "done", !.awaiting = 0, !.got = "",
                                   !.result = "authentication_failed"]]
  /\ UNCHANGED <<routingVars, batchVars, geoVars, candVars, accessTokens, refreshing, outcome,
                 unauthorized>>

\* axios(config) settles: the response is returned, or the error is thrown
\* to the caller, or on 401 the cached token is cleared and makeRequest is
\* called again unless the error's config says retried
Respond(p) ==
  /\ ~Draining
  /\ caller[p].pc = "request"
  /\ \E status \in {200, 401, 500} :
       IF status = 401
         THEN /\ unauthorized < MaxUnauthorized
              /\ unauthorized' = unauthorized + 1
              /\ IF ~retried(p)
                   THEN /\ accessTokens' = [accessTokens EXCEPT ![caller[p].locationId] = FALSE]
                        /\ caller' = [caller EXCEPT ![p].pc = "token",
                                                    ![p].attempts = @ + 1]
                   ELSE /\ caller' = [caller EXCEPT ![p].pc = "done", ![p].result = "http_401"]
                        /\ UNCHANGED accessTokens
         ELSE /\ caller' = [caller EXCEPT ![p].pc = "done",
                                          ![p].result = IF status = 200 THEN "ok" ELSE "http_error"]
              /\ UNCHANGED <<accessTokens, unauthorized>>
  /\ UNCHANGED <<routingVars, batchVars, geoVars, candVars, tokenRefreshPromises, refreshing,
                 outcome>>

GhlNext ==
  \E p \in Procs :
    \/ MakeRequest(p)
    \/ GetAccessToken(p)
    \/ RefreshSettles(p)
    \/ Resume(p)
    \/ Respond(p)

GhlSpec == GhlInit /\ [][GhlNext]_vars

\* ------------------------------------------------------ what the claims use
AssignStates == {"ASSIGNED", "OVERFLOW", "FALLBACK", "FAILED"}

\* errors that only an injected store or collaborator failure produces
FaultErrors == {"store_error", "assignment_failed", "notify_failed", "capacity_update_failed"}

Quiescent == InFlight = {}

LeadsOf(p) == {i \in 1..Len(leads) : leads[i].ghl_contact_id = p}
LogsOfLead(i) == {k \in 1..Len(logs) : logs[k].lead_id = i}
AssignLogsOf(p) ==
  {k \in 1..Len(logs) : logs[k].by = p /\ logs[k].routing_reason # "manual_reassignment"}
LastLogOf(i) == CHOOSE k \in LogsOfLead(i) : \A j \in LogsOfLead(i) : j <= k

Current(row) == IF row.exists THEN row.current_leads ELSE 0

OptimalCount(l) ==
  Cardinality({k \in 1..Len(logs) : /\ logs[k].routing_reason = "optimal_match"
                                    /\ logs[k].assigned_location_id = l})

NoReassignLogged == \A k \in 1..Len(logs) : logs[k].routing_reason # "manual_reassignment"

\* C1: when N concurrent assignments to one location have all succeeded (no
\* failure, no reassignment), the ledger's current count of that location is
\* the count before them plus N.
C1_NoLostUpdate ==
  (Quiescent /\ faultsUsed = 0 /\ NoReassignLogged) =>
     \A l \in Locs : Current(ledger[l]) = Current(seeded[l]) + OptimalCount(l)

\* C2: the ledger increment persists only together with the Lead and the
\* RoutingDecision: once every request has ended, a location's ledger has not
\* grown by more than the optimal-match assignments persisted for it.
C2_IncrementCommitsWithLead ==
  (Quiescent /\ NoReassignLogged) =>
     \A l \in Locs : Current(ledger[l]) - Current(seeded[l]) <= OptimalCount(l)

\* C3: every lead's assigned location is the location of the lead's most
\* recent routing decision.
C3_AssignedIsLastDecision ==
  \A i \in 1..Len(leads) :
     /\ LogsOfLead(i) # {}
     /\ leads[i].assigned_location_id = logs[LastLogOf(i)].assigned_location_id

\* a lead has been reassigned to another location
C3_Witness ==
  \E i \in 1..Len(leads) :
     /\ Cardinality(LogsOfLead(i)) >= 2
     /\ leads[i].backup_location_id # 0
     /\ leads[i].assigned_location_id # leads[i].backup_location_id

\* C4: one assignLead call persists at most one Lead with one RoutingDecision,
\* and exactly one of each when it returns success.
C4_ExactlyOneLead ==
  \A p \in Procs :
     /\ Cardinality(LeadsOf(p)) <= 1
     /\ Cardinality(AssignLogsOf(p)) <= 1
     /\ result[p].state \in {"ASSIGNED", "OVERFLOW", "FALLBACK"} =>
           /\ Cardinality(LeadsOf(p)) = 1
           /\ Cardinality(AssignLogsOf(p)) = 1

\* C5: a call that ends in FAILED has persisted no Lead and no
\* RoutingDecision, and its result carries the original and the fallback error.
C5_FailedPersistsNothing ==
  \A p \in Procs :
     result[p].state = "FAILED" =>
        /\ LeadsOf(p) = {}
        /\ AssignLogsOf(p) = {}
        /\ result[p].originalError # ""
        /\ result[p].fallbackError # ""

Decision(k) == <<logs[k].routing_reason, logs[k].routing_data>>
NormalMatches == {k \in 1..Len(logs) : logs[k].routing_reason = "optimal_match" /\ ~logs[k].viaDegrade}
DegradedMatches == {k \in 1..Len(logs) : logs[k].routing_reason = "optimal_match" /\ logs[k].viaDegrade}

\* C6: in a run without failures, a location selected outside the degrade
\* path was under the threshold of the lead's score (0.9 from score 80, else
\* 0.8), and the decision persisted for a degrade-path selection differs in
\* reason or metadata from every decision of a normal optimal match.
C6_ThresholdOrDistinguishable ==
  faultsUsed = 0 =>
    /\ \A k \in NormalMatches :
          logs[k].routing_data.capacityUtilization <
            (IF leads[logs[k].lead_id].lead_score >= 80 THEN HighThreshold ELSE LowThreshold)
    /\ \A k \in DegradedMatches : \A j \in NormalMatches : Decision(k) # Decision(j)

NoValidCoordinates == \A l \in Locs : active[l] => place[l] = "invalid"

\* C7: with no active location that has valid coordinates, no assignment
\* request ends in ASSIGNED or in FALLBACK.
C7_NoValidCoordinatesNoSuccess ==
  NoValidCoordinates =>
     \A p \in Procs : result[p].state \notin {"ASSIGNED", "FALLBACK"}

NoneNearby == \A l \in Locs : ~(active[l] /\ place[l] = "near")

\* the request was geocoded and met no store or collaborator failure
Undisturbed(p) ==
  /\ result[p].state \in AssignStates
  /\ result[p].originalError \notin FaultErrors \cup {"invalid_zip"}
  /\ result[p].fallbackError \notin FaultErrors

\* C8: with no active location within the radius (and an active location
\* named overflow/headquarters), a geocoded request that meets no failure ends
\* in OVERFLOW: the lead is at that location with reason no_capacity_overflow,
\* the alert is emitted and the result asks for manual review.
C8_NoCandidateOverflows ==
  (NoneNearby /\ hq # 0 /\ active[hq]) =>
     \A p \in Procs :
        Undisturbed(p) =>
           /\ result[p].state = "OVERFLOW"
           /\ result[p].locationId = hq
           /\ result[p].reason = "no_capacity_overflow"
           /\ result[p].requiresManualReview
           /\ Alert("capacity_overflow", result[p].leadId, "") \in alerts

\* the FALLBACK outcome of the request p that was at fallbackRouting: the lead
\* is at the oldest active location, the reason is fallback_routing, the
\* alert carries the original error and the result asks for review
EndsInFallback(p) ==
  /\ result'[p].state = "FALLBACK"
  /\ result'[p].success
  /\ active[result'[p].locationId]
  /\ \A m \in Locs : active[m] => result'[p].locationId <= m
  /\ result'[p].reason = "fallback_routing"
  /\ result'[p].requiresReview
  /\ result'[p].leadId = Len(leads')
  /\ leads'[Len(leads')].assigned_location_id = result'[p].locationId
  /\ logs'[Len(logs')].routing_reason = "fallback_routing"
  /\ Alert("routing_fallback", result'[p].leadId, loc[p].originalError) \in alerts'

EndsInFailed(p) ==
  /\ result'[p].state = "FAILED"
  /\ ~result'[p].success
  /\ result'[p].originalError = loc[p].originalError
  /\ result'[p].fallbackError # ""
  /\ (\E l \in Locs : active[l]) => result'[p].fallbackError \in FaultErrors

C10_NoOverflowLocationFails ==
  \A p \in Procs :
     (/\ result[p].state \in AssignStates
      /\ result[p].originalError = "no_overflow_location"
      /\ result[p].fallbackError \notin FaultErrors) =>
        /\ result[p].state = "FAILED"
        /\ LeadsOf(p) = {}

\* the committed routing decisions an instruction can belong to
DecisionsFor(i) ==
  {k \in 1..Len(logs) : /\ logs[k].by = i.contact
                        /\ logs[k].assigned_location_id = i.locationId
                        /\ logs[k].routing_reason = i.reason}

\* C11: every CRM instruction (contact update, location automation) emitted
\* by executeAssignment belongs to an assignment whose transaction committed.
C11_InstructionsAfterCommit ==
  \A i \in crm : DecisionsFor(i) # {}

\* C12: when the contact update or the automation trigger fails inside
\* executeAssignment, the step still commits the Lead and the RoutingDecision
\* for that location and the call returns its success result.
C12_CrmFailureContained ==
  [][\A i \in crm' \ crm :
        ~i.ok =>
          /\ Len(leads') = Len(leads) + 1
          /\ leads'[Len(leads')].assigned_location_id = i.locationId
          /\ leads'[Len(leads')].ghl_contact_id = i.contact
          /\ Len(logs') = Len(logs) + 1
          /\ logs'[Len(logs')].assigned_location_id = i.locationId
          /\ logs'[Len(logs')].routing_reason = i.reason
          /\ result'[i.contact].success
          /\ result'[i.contact].locationId = i.locationId]_vars

\* a CRM call has failed in a call that returned its assignment
C12_Witness ==
  \E i \in crm : ~i.ok /\ result[i.contact].success /\ DecisionsFor(i) # {}

\* C13: a step that commits an overflow or a fallback assignment ends the
\* call with the success result of that assignment, whether or not the
\* operator alert could be emitted; the call makes no further attempt.
C13_AlertFailureContained ==
  [][(/\ Len(logs') = Len(logs) + 1
      /\ logs'[Len(logs')].routing_reason \in {"no_capacity_overflow", "fallback_routing"}) =>
        LET p == logs'[Len(logs')].by
        IN /\ pc'[p] = "done"
           /\ result'[p].success
           /\ result'[p].locationId = logs'[Len(logs')].assigned_location_id
           /\ result'[p].reason = logs'[Len(logs')].routing_reason]_vars

\* C14: an assignLead call never ends by raising: whatever fails, it returns
\* an assignment or the FAILED result object.
C14_AssignNeverRaises ==
  [][\A p \in Procs :
        (loc[p].kind = "assign" /\ pc'[p] = "done") => result'[p].state \in AssignStates]_vars

\* a rejected ledger update inside assignLead has ended in a fallback
\* assignment
C14_Witness ==
  \E p \in Procs :
     /\ result[p].state = "FALLBACK"
     /\ result[p].originalError = "capacity_update_failed"

\* C15: in a run of one request at a time, a reassignLead that returns
\* success for a lead at location A (ledger at least 1) and a different
\* location B leaves A's ledger one lower and B's one higher than before the
\* call, the lead at B with backup A, and one more RoutingDecision from A to B.
C15_ReassignMovesLedger ==
  [][\A p \in Procs :
        LET A == loc[p].oldLoc
            B == loc[p].newLoc
            id == loc[p].leadId
        IN (/\ pc[p] = "r_commit"
            /\ result'[p].state = "REASSIGNED"
            /\ concurrency = 1
            /\ A # B
            /\ Current(loc[p].before[A]) >= 1) =>
              /\ Current(ledger'[A]) = Current(loc[p].before[A]) - 1
              /\ Current(ledger'[B]) = Current(loc[p].before[B]) + 1
              /\ leads'[id].assigned_location_id = B
              /\ leads'[id].backup_location_id = A
              /\ Len(logs') = Len(logs) + 1
              /\ logs'[Len(logs')].lead_id = id
              /\ logs'[Len(logs')].original_location_id = A
              /\ logs'[Len(logs')].assigned_location_id = B]_vars

\* C16: in a run of one request at a time, a reassignLead that raises leaves
\* the leads, the routing log and every ledger entry as they were before the
\* call.
C16_FailedReassignChangesNothing ==
  [][\A p \in Procs :
        (/\ loc[p].kind = "reassign"
         /\ pc'[p] = "done"
         /\ result'[p].state = "RAISED"
         /\ concurrency = 1) =>
           /\ ledger' = loc[p].before
           /\ leads' = leads
           /\ logs' = logs]_vars

\* C17: a reassignLead that goes on past its checks is for an existing lead
\* and an active location; one that is rejected raises and leaves the leads,
\* the routing log and the ledger unchanged.
C17_RejectedReassignChangesNothing ==
  [][\A p \in Procs :
        (pc[p] = "idle" /\ pc'[p] # "idle") =>
           /\ loc'[p].kind = "reassign" =>
                /\ loc'[p].leadId \in 1..Len(leads)
                /\ loc'[p].newLoc \in Locs
                /\ active[loc'[p].newLoc]
           /\ pc'[p] = "done" =>
                /\ result'[p].state = "RAISED"
                /\ result'[p].originalError \in {"lead_not_found", "invalid_location"}
                /\ UNCHANGED <<leads, logs, ledger>>]_vars

\* a reassignment of an existing lead to an inactive location was rejected
\* (the location is looked up after the lead was found)
C17_Witness ==
  \E p \in Procs :
     /\ result[p].state = "RAISED"
     /\ result[p].originalError = "invalid_location"
     /\ result[p].locationId \in Locs
     /\ ~active[result[p].locationId]
     /\ leads # <<>>

\* the leads whose assigned location is l
AssignedTo(l) == {i \in 1..Len(leads) : leads[i].assigned_location_id = l}

\* C18: after any sequence of assignments served one at a time, without
\* failure and without reassignment, a location's ledger has grown by the
\* number of leads assigned to it, whatever their reason codes.
C18_LedgerGrowthIsLeadCount ==
  (Quiescent /\ concurrency = 1 /\ faultsUsed = 0 /\ NoReassignLogged) =>
     \A l \in Locs :
        Current(ledger[l]) - Current(seeded[l]) = Cardinality(AssignedTo(l))

\* the places of item i in a list of per-item entries
EntriesOf(list, i) == {k \in 1..Len(list) : list[k].index = i}

\* C19: once the route has answered a batch of n >= 1 items, the answer is
\* the summary, every index 0..n-1 is in exactly one of assignments and
\* errors, once, and successful + failed = total = n.
C19_EveryIndexReported ==
  (response # NoResponse /\ Len(batchLeads) >= 1) =>
     /\ response.status = 200
     /\ \A i \in 0..(Len(batchLeads) - 1) :
           Cardinality(EntriesOf(response.assignments, i))
             + Cardinality(EntriesOf(response.errors, i)) = 1
     /\ response.total = Len(batchLeads)
     /\ response.successful + response.failed = response.total

\* C20: in a summary, no item for which assignLead returned the complete
\* routing failure (success false, no lead persisted) is among the
\* assignments; it is among the errors and counted in failed.
C20_FailureReportedAsError ==
  (body = NoBody /\ response.status = 200) =>
     /\ \A k \in 1..Len(response.assignments) : response.assignments[k].result.success
     /\ response.failed = Len(response.errors)
     /\ response.successful = Len(response.assignments)

\* the item or body lacks the postal code, the source or the contact id
LacksRequired(lead) == ~lead.isNull /\ (~lead.zip_code \/ ~lead.source \/ ~lead.ghl_contact_id)

\* C21: a lead request without the postal code, the source or the external
\* contact id is turned away before routing: the step that handles it does
\* not call assignLead and writes nothing; POST /assign_lead answers 400 and
\* POST /assign_leads adds a per-item error with the item's index.
C21_MissingFieldsNotRouted ==
  [][/\ (body = NoBody /\ index' = index + 1 /\ LacksRequired(batchLeads[index + 1])) =>
          /\ called' = called
          /\ results' = results
          /\ errors' = Append(errors, errorsEntry(index, ""))
          /\ UNCHANGED routingVars
     /\ (body # NoBody /\ response' # response /\ LacksRequired(body)) =>
          /\ response'.status = 400
          /\ called' = called
          /\ results' = results
          /\ UNCHANGED routingVars]_vars

\* a batch was answered in which one item was routed and another was turned
\* away for a missing field
C21_Witness ==
  /\ response.status = 200
  /\ called # <<>>
  /\ \E k \in 1..Len(response.errors) :
        LacksRequired(batchLeads[response.errors[k].index + 1])

\* C22: the step in which a request reads the utilization of the candidates
\* (findAvailableLocations and the selection among them) leaves the ledger,
\* the leads and the routing log as they were; no ledger row appears for a
\* location that had none.
C22_UtilizationReadIsPure ==
  [][\A p \in Procs :
        (pc[p] = "find" /\ pc'[p] # "find") =>
           /\ ledger' = ledger
           /\ leads' = leads
           /\ logs' = logs]_vars

\* a request has selected a location that has no ledger row of today
C22_Witness ==
  \E p \in Procs :
     /\ loc[p].kind = "assign"
     /\ pc[p] = CapacityEntry
     /\ loc[p].selected \in Locs
     /\ ~ledger[loc[p].selected].exists

\* locations.max_daily_capacity of the five seeded locations, by creation order
max_daily_capacity == <<150, 120, 100, 80, 110>>

\* C23: a ledger entry created by the first increment of a (location, day)
\* carries the location's configured maximum daily capacity.
C23_CreatedEntryCarriesConfiguredMax ==
  \A l \in Locs :
     (ledger[l].exists /\ ~seeded[l].exists) =>
        ledger[l].max_capacity = max_daily_capacity[l]

\* C24: the ledger never holds more than one entry for a location and day,
\* also after two concurrent first increments of the same pair.
C24_OneEntryPerLocationDay ==
  \A l \in Locs :
     /\ ledger[l].rows <= 1
     /\ ledger[l].exists <=> ledger[l].rows = 1

\* two concurrent assignments to a location without an entry have both ended:
\* both found no row, one insert created it and the other was rejected
C24_Witness ==
  /\ Quiescent
  /\ impl = 1
  /\ faultsUsed = 0
  /\ \E l \in Locs :
        /\ ~seeded[l].exists
        /\ OptimalCount(l) >= 2
        /\ ledger[l].rows = 1
        /\ ledger[l].current_leads = 1

\* C25: in a run without failures, every ledger entry has a current count of
\* at least 0, and once every request has ended its stored rate is its
\* current count over its max.
C25_CountFlooredRateCurrent ==
  faultsUsed = 0 =>
     \A l \in Locs :
        ledger[l].exists =>
           /\ ledger[l].current_leads >= 0
           /\ Quiescent =>
                ledger[l].utilization_rate = Rate(ledger[l].current_leads, ledger[l].max_capacity)

\* C26: every step leaves the routing decisions it found as they are and adds
\* at most one; a step that inserts or moves a lead, and the step in which a
\* reassignment commits, add exactly one.
C26_LogAppendOnly ==
  [][/\ Len(logs') \in {Len(logs), Len(logs) + 1}
     /\ \A k \in 1..Len(logs) : logs'[k] = logs[k]
     /\ leads' # leads => Len(logs') = Len(logs) + 1
     /\ \A p \in Procs :
           (pc[p] = "r_commit" /\ result'[p].state = "REASSIGNED") =>
              Len(logs') = Len(logs) + 1]_vars

\* the decision of an assignment is still in the log, followed by the
\* decision of a reassignment of the same lead
C26_Witness ==
  /\ Len(logs) >= 2
  /\ logs[1].routing_reason # "manual_reassignment"
  /\ logs[Len(logs)].routing_reason = "manual_reassignment"
  /\ logs[Len(logs)].lead_id = logs[1].lead_id

\* the decisions of lead i before decision k
EarlierLogsOf(i, k) == {j \in LogsOfLead(i) : j < k}

\* C27: the decisions of a lead form a chain: every reassignment decision
\* names as its prior location the resulting location of the decision of
\* that lead right before it.
C27_DecisionsFormChain ==
  \A k \in 1..Len(logs) :
     logs[k].routing_reason = "manual_reassignment" =>
        /\ EarlierLogsOf(logs[k].lead_id, k) # {}
        /\ LET prev == CHOOSE j \in EarlierLogsOf(logs[k].lead_id, k) :
                          \A m \in EarlierLogsOf(logs[k].lead_id, k) : m <= j
           IN logs[k].original_location_id = logs[prev].assigned_location_id


\* C28: getCoordinatesFromZip returns to its caller, and when the provider
\* throws or gives no result the static table is consulted and then, for a
\* code of the valid five-digit pattern, the regional estimate: NotFound is
\* returned only when no tier matches.
C28_TiersAfterProviderFailure ==
  (job = "geocode" /\ zipCode # <<>> /\ apiKey /\ geocode \in {"none", "throws"}
     /\ coordinates.returned) =>
    IF InFallbacks(baseZip(zipCode)) THEN coordinates.method = "fallback_database"
    ELSE IF isValidUSZipCode(baseZip(zipCode)) THEN coordinates.method = "estimation"
    ELSE ~coordinates.found

\* C29: the postal code "00000" resolves in no tier of the geocoder: unless
\* the provider itself gives coordinates for it, getCoordinatesFromZip
\* returns NotFound (and assignLead goes to fallback routing).
C29_ZeroZipNotFound ==
  (job = "geocode" /\ zipCode = <<"0", "0", "0", "0", "0">> /\ geocode # "found"
     /\ coordinates.returned) =>
    ~coordinates.found

\* C30: calculateDistance is symmetric and zero on identical points, in
\* both implementations: distance(a, b) = distance(b, a), distance(a, a) = 0.
C30_DistanceSymmetricZeroOnSelf ==
  miles.by # "none" =>
    /\ miles.ab = miles.ba
    /\ miles.aa = 0
    /\ miles.bb = 0

\* the distance was taken between two points that differ in latitude and
\* in longitude and lie apart
C30_Witness ==
  /\ miles.by = "RoutingService"
  /\ pointA.latitude # pointB.latitude
  /\ pointA.longitude # pointB.longitude
  /\ Cos(toRadians(pointA.latitude)) # Cos(toRadians(pointB.latitude))
  /\ miles.ab > 0


\* C31: the list findAvailableLocations returns is sorted by suitability
\* score descending, ties broken by smaller distance and then by lower
\* utilization; its first element is the one selectOptimalLocation takes.
C31_SortedWithTieBreaks ==
  (candList.asked /\ candList.error = "") =>
    \A i, j \in 1..Len(candList.list) :
      i < j =>
        LET a == candList.list[i]
            b == candList.list[j]
        IN \/ a.suitabilityScore > b.suitabilityScore
           \/ /\ a.suitabilityScore = b.suitabilityScore
              /\ \/ a.distance < b.distance
                 \/ a.distance = b.distance /\ a.utilization_rate <= b.utilization_rate

\* the radius-filtered rows of the search, and whether none of them passes
\* the utilization threshold of the lead
NearbyRows == SelectSeq(candRows, WithinRadius)
AllOverThreshold ==
  \A i \in 1..Len(NearbyRows) :
    NearbyRows[i].utilization_rate >= maxUtilizationThreshold(candLead.leadScore)
ListedIds == {candList.list[i].id : i \in 1..Len(candList.list)}

\* C32: when the utilization threshold eliminates every radius-filtered
\* candidate, findAvailableLocations returns the 3 nearest of them (all of
\* them if fewer than 3), whatever the order the store returned them in.
C32_DegradesToThreeNearest ==
  (candList.asked /\ NearbyRows # <<>> /\ AllOverThreshold) =>
    /\ candList.error = ""
    /\ Len(candList.list) = Min(NearestKept, Len(NearbyRows))
    /\ \A i \in 1..Len(NearbyRows) :
         NearbyRows[i].id \notin ListedIds =>
           \A k \in 1..Len(candList.list) : candList.list[k].distance <= NearbyRows[i].distance

\* 100 - 2 * distance - 30 * utilization + 20 for a high-value lead at a
\* location under 0.6 + 10 for facebook at a location scoring over 0.8,
\* in 1/RateScale of a point
ScoreFormula(row, lead) ==
  100 * RateScale
  - (2 * row.distance * RateScale) \div DistScale
  - 30 * row.utilization_rate
  + (IF lead.leadScore >= 80 /\ 10 * row.utilization_rate < 6 * RateScale THEN 20 * RateScale ELSE 0)
  + (IF lead.source = "facebook" /\ 10 * row.facebook_performance_score > 8 * RateScale
       THEN 10 * RateScale ELSE 0)

\* C33: calculateSuitabilityScore returns the formula floored at 0 for
\* every input, and so never a negative score.
C33_ScoreIsFlooredFormula ==
  \A i \in 1..Len(candScores) :
    /\ candScores[i] >= 0
    /\ candScores[i] = IF ScoreFormula(candRows[i], candLead) < 0 THEN 0
                       ELSE ScoreFormula(candRows[i], candLead)

\* a row was scored whose formula is negative, by a high-value lead from
\* facebook at a location with a high facebook performance score
C33_Witness ==
  /\ candScores # <<>>
  /\ ScoreFormula(candRows[1], candLead) < 0
  /\ candLead.leadScore >= 80
  /\ candLead.source = "facebook"
  /\ candRows[1].facebook_performance_score > FacebookThreshold
  /\ candScores[1] = 0


\* the callers awaiting the refresh that caller p started
AwaitingRefreshOf(p) == {q \in Procs : caller[q].pc = "await" /\ caller[q].awaiting = p}

\* C34: for any interleaving of getAccessToken calls for a location without
\* a valid cached token, at most one refreshAccessToken is in flight for
\* the location, every caller that waited is handed the result of that
\* refresh, and the in-flight entry is gone once the refresh has settled
\* and the caller that started it has gone on, on success and on failure.
C34_OneRefreshInFlight ==
  /\ \A l \in Locs : Cardinality({p \in Procs : refreshing[p] = l}) <= 1
  /\ \A q \in Procs :
       (caller[q].pc = "await" /\ caller[q].got # "") => caller[q].got = outcome[caller[q].awaiting]
  /\ \A l \in Locs :
       tokenRefreshPromises[l] # 0 =>
         /\ tokenRefreshPromises[l] \in AwaitingRefreshOf(tokenRefreshPromises[l])
         /\ caller[tokenRefreshPromises[l]].locationId = l
  /\ \A q \in Procs :
       (caller[q].pc = "await" /\ caller[q].got = "") =>
         /\ refreshing[caller[q].awaiting] = caller[q].locationId
         /\ tokenRefreshPromises[caller[q].locationId] = caller[q].awaiting

\* a second caller awaited the refresh another caller had started for the
\* same location, and the refresh has settled for both
C34_Witness ==
  \E p, q \in Procs :
    /\ p # q
    /\ caller[q].pc = "await"
    /\ caller[q].awaiting = p
    /\ caller[q].got \in {"token", "authentication_failed"}
    /\ caller[q].locationId = caller[p].locationId
    /\ tokenRefreshPromises[caller[q].locationId] = 0
    /\ refreshing[p] = 0

\* C35: on a 401 makeRequest clears the cached token and retries once; a
\* second 401 is raised to the caller, so one makeRequest call sends the
\* request at most twice.
C35_RetriesOnce ==
  \A p \in Procs : caller[p].attempts <= 2


\* C36: from the same store state a lead request routed through POST
\* /assign_lead gets the same chosen location, reason and persisted lead
\* score as routed as a batch of one through POST /assign_leads.
C36_RoutesAgree ==
  candRouted.done => candRouted.single = candRouted.batch


\* C37: no step of assignLead (optimal match, overflow, fallback) and no
\* reassignLead puts a lead on a location whose active flag is false when
\* the location is chosen.
C37_NeverAssignsToInactive ==
  [][/\ Len(leads') > Len(leads) => active[leads'[Len(leads')].assigned_location_id]
     /\ \A i \in 1..Len(leads) :
           leads'[i].assigned_location_id # leads[i].assigned_location_id
             => active[leads'[i].assigned_location_id]]_vars


\* C38: from the same store state, two assignLead requests that differ only
\* in first name, last name, email or phone (an absent email included) reach
\* the same terminal state and the same chosen location.
C38_ContactFieldsDoNotRoute ==
  candEnds # <<>> => candEnds[1] = candEnds[2]

====
